---- MODULE Spec2Model ----
(***************************************************************************)
(* Model of the PDF form-filling pipeline of pdftitan's Python backend:   *)
(* services/pdf_service.py (overlay renderer and compositor) and the       *)
(* draft handlers of routers/drafts.py that call it through                *)
(* services/google_drive.py.                                               *)
(*                                                                         *)
(* JSON values of an element are tagged tuples: <<"absent">> (key not in   *)
(* the dict), <<"none">>, <<"bool", b>>, <<"int", n>>, <<"str", chars>>    *)
(* and <<"datauri", mime, payload>> for a string                           *)
(* "data:image/<mime>;base64,<payload>".  The chars of a str are a         *)
(* sequence of pieces: whitespace, digits and the characters of a colour   *)
(* are pieces of one character, a word such as "true" is one piece.        *)
(* Numbers are whole points; the drawn size of an image is an exact        *)
(* fraction <<numerator, denominator>>.                                    *)
(***************************************************************************)
EXTENDS Integers, Sequences, FiniteSets, TLC

VARIABLES call, drive, resp, threads, store, stdout, backflow, _technicians_cache,
          time, _st_client, inflight, servicetitan, pager, _customers_cache

vars == <<call, drive, resp, threads, store, stdout, backflow, _technicians_cache,
          time, _st_client, inflight, servicetitan, pager, _customers_cache>>

\* the variables of the fill pipeline and of the technicians cache
fillVars == <<call, threads, store, stdout, _technicians_cache>>

-----------------------------------------------------------------------------
(* Bounds of the model *)

MaxPages == 2

MaxElems == 2

MaxUpdates == 2

MaxRequests == 2

-----------------------------------------------------------------------------
(* Python values *)

Absent == <<"absent">>

None == <<"none">>

PyBool(b) == <<"bool", b>>

PyInt(n) == <<"int", n>>

PyStr(chars) == <<"str", chars>>

DataUri(mime, payload) == <<"datauri", mime, payload>>

Tag(v) == v[1]

\* isinstance(v, str)
IsStr(v) == Tag(v) \in {"str", "datauri"}

\* dict.get(key, default): the default only when the key is missing
Get(element, key, default) ==
    IF element[key] = Absent THEN default ELSE element[key]

\* bool(v)
Truthy(v) ==
    CASE Tag(v) = "absent" -> FALSE
      [] Tag(v) = "none" -> FALSE
      [] Tag(v) = "bool" -> v[2]
      [] Tag(v) = "int" -> v[2] # 0
      [] Tag(v) = "str" -> Len(v[2]) > 0
      [] Tag(v) = "datauri" -> TRUE

\* v or d
Or(v, d) == IF Truthy(v) THEN v ELSE d

\* v == n for an int n: True == 1 and False == 0 in Python
EqInt(v, n) ==
    CASE Tag(v) = "int" -> v[2] = n
      [] Tag(v) = "bool" -> (IF v[2] THEN 1 ELSE 0) = n
      [] OTHER -> FALSE

\* v == s for a str s
EqStr(v, chars) == Tag(v) = "str" /\ v[2] = chars

Whitespace == {" ", "\n", "\t"}

Digits == {"0", "1", "2", "3", "4", "5", "6", "7", "8", "9"}

DigitVal(ch) ==
    CASE ch = "0" -> 0 [] ch = "1" -> 1 [] ch = "2" -> 2 [] ch = "3" -> 3
      [] ch = "4" -> 4 [] ch = "5" -> 5 [] ch = "6" -> 6 [] ch = "7" -> 7
      [] ch = "8" -> 8 [] ch = "9" -> 9
      [] ch = "a" -> 10 [] ch = "b" -> 11 [] ch = "c" -> 12
      [] ch = "d" -> 13 [] ch = "e" -> 14 [] ch = "f" -> 15

HexDigits == Digits \cup {"a", "b", "c", "d", "e", "f"}

\* int(chars, base) of a string of digits of that base
RECURSIVE IntOf(_, _)
IntOf(chars, base) ==
    IF chars = <<>> THEN 0
    ELSE IntOf(SubSeq(chars, 1, Len(chars) - 1), base) * base
         + DigitVal(chars[Len(chars)])

\* str.strip()
RECURSIVE LStrip(_)
LStrip(chars) ==
    IF chars # <<>> /\ Head(chars) \in Whitespace THEN LStrip(Tail(chars))
    ELSE chars

RECURSIVE RStrip(_)
RStrip(chars) ==
    IF chars # <<>> /\ chars[Len(chars)] \in Whitespace
    THEN RStrip(SubSeq(chars, 1, Len(chars) - 1))
    ELSE chars

Strip(chars) == RStrip(LStrip(chars))

\* str.split("\n"): always at least one piece, empty pieces kept
RECURSIVE SplitFrom(_, _)
SplitFrom(chars, cur) ==
    IF chars = <<>> THEN <<cur>>
    ELSE IF Head(chars) = "\n" THEN <<cur>> \o SplitFrom(Tail(chars), <<>>)
    ELSE SplitFrom(Tail(chars), Append(cur, Head(chars)))

Split(chars) == SplitFrom(chars, <<>>)

DigitChar(d) ==
    CASE d = 0 -> "0" [] d = 1 -> "1" [] d = 2 -> "2" [] d = 3 -> "3"
      [] d = 4 -> "4" [] d = 5 -> "5" [] d = 6 -> "6" [] d = 7 -> "7"
      [] d = 8 -> "8" [] d = 9 -> "9"

\* str(n) of an int n >= 0
RECURSIVE DecimalOf(_)
DecimalOf(n) ==
    IF n < 10 THEN <<DigitChar(n)>>
    ELSE Append(DecimalOf(n \div 10), DigitChar(n % 10))

\* str(v) of the values used as text content
StrOf(v) ==
    CASE Tag(v) = "str" -> v[2]
      [] Tag(v) = "int" -> DecimalOf(v[2])
      [] Tag(v) = "bool" -> IF v[2] THEN <<"T", "r", "u", "e">>
                            ELSE <<"F", "a", "l", "s", "e">>
      [] Tag(v) = "none" -> <<"N", "o", "n", "e">>

\* float of a str, surrounding whitespace removed: all digits, or it raises
FloatOfStr(chars) ==
    IF chars # <<>> /\ \A i \in DOMAIN chars : chars[i] \in Digits
    THEN [ok |-> TRUE, val |-> IntOf(chars, 10)]
    ELSE [ok |-> FALSE, val |-> 0]

\* float(v): [ok, val]; ok is FALSE when float raises
Float(v) ==
    CASE Tag(v) = "int" -> [ok |-> TRUE, val |-> v[2]]
      [] Tag(v) = "bool" -> [ok |-> TRUE, val |-> IF v[2] THEN 1 ELSE 0]
      [] Tag(v) = "str" -> FloatOfStr(Strip(v[2]))
      [] OTHER -> [ok |-> FALSE, val |-> 0]

Min(a, b) == IF a <= b THEN a ELSE b

-----------------------------------------------------------------------------
(* services/pdf_service.py: the overlay renderer *)

DefaultColor == <<"#", "1", "e", "3", "a", "8", "a">>

black == <<0, 0, 0>>

Rgb(n) == <<(n \div 65536) % 256, (n \div 256) % 256, n % 256>>

\* int(val, 16) raises on an empty string or a character that is no hex digit
HexValue(val) ==
    IF val # <<>> /\ \A i \in DOMAIN val : val[i] \in HexDigits
    THEN [ok |-> TRUE, rgb |-> Rgb(IntOf(val, 16))]
    ELSE [ok |-> FALSE, rgb |-> black]

\* reportlab HexColor of a "#"-prefixed string
HexColor(color_str) ==
    HexValue(IF color_str # <<>> /\ Head(color_str) = "#"
             THEN Tail(color_str) ELSE color_str)

\* the canvas: the marking operations drawn so far and the lines printed
NewCanvas == [marks |-> <<>>, log |-> <<>>]

DrawString(el, x, y, text, font_size, color) ==
    [op |-> "drawString", el |-> el, x |-> x, y |-> y, text |-> text,
     font |-> font_size, color |-> color, w |-> <<0, 1>>, h |-> <<0, 1>>]

DrawImage(el, x, y, w, h) ==
    [op |-> "drawImage", el |-> el, x |-> x, y |-> y, text |-> <<>>,
     font |-> 0, color |-> black, w |-> w, h |-> h]

\* pdf_y - (i * font_size), i the 0-based index of the line in the split
LineY(pdf_y, i, font_size) == pdf_y - (i * font_size)

\* if not content or not str(content).strip(): return
IsBlankContent(content) ==
    \/ ~Truthy(content)
    \/ Strip(StrOf(content)) = <<>>

\* the fallback of the try around HexColor(color_str)
\* the fallback is the default colour instead of black
OrBlack_Default(parsed) ==
    IF parsed.ok THEN parsed.rgb ELSE Rgb(IntOf(Tail(DefaultColor), 16))

OrBlack(parsed) == IF parsed.ok THEN parsed.rgb ELSE black

TextColor(color_str) == OrBlack(HexColor(color_str))

\* one drawString per line of lines, those blank after strip() left out
DrawLines(el, lines, x, pdf_y, font_size, color) ==
    SelectSeq([k \in 1..Len(lines) |->
                 DrawString(el, x, LineY(pdf_y, k - 1, font_size),
                            Strip(lines[k]), font_size, color)],
              LAMBDA m : m.text # <<>>)

\* the index counts the drawn lines only, so blank lines shift the rest up
TextLines_Compact(el, content, x, pdf_y, font_size, color) ==
    DrawLines(el, SelectSeq(Split(StrOf(content)), LAMBDA l : Strip(l) # <<>>),
              x, pdf_y, font_size, color)

\* the drawString calls of the loop over enumerate(lines)
TextLines(el, content, x, pdf_y, font_size, color) ==
    DrawLines(el, Split(StrOf(content)), x, pdf_y, font_size, color)

\* every line of lines drawn, blank or not
DrawEveryLine(el, lines, x, pdf_y, font_size, color) ==
    [k \in 1..Len(lines) |->
       DrawString(el, x, pdf_y - ((k - 1) * font_size), Strip(lines[k]),
                  font_size, color)]

\* no early return and no test of line.strip(): every line is drawn
_draw_text_NoSkip(c, el, content, x, pdf_y, font_size, color_str) ==
    [c EXCEPT !.marks =
        @ \o DrawEveryLine(el, Split(StrOf(content)), x, pdf_y, font_size,
                           TextColor(color_str))]

_draw_text(c, el, content, x, pdf_y, font_size, color_str) ==
    IF IsBlankContent(content) THEN c
    ELSE [c EXCEPT !.marks =
            @ \o TextLines(el, content, x, pdf_y, font_size, TextColor(color_str))]

\* mimes the pattern ^data:image/[a-z]+;base64, strips
AlphaMimes == {"png", "jpeg"}

\* base64.b64decode and Image.open succeed
ImageOpens(content) ==
    /\ Tag(content) = "datauri"
    /\ content[2] \in AlphaMimes
    /\ content[3][1] = "img"

\* the scale-to-fit of an iw x ih image into draw_width x draw_height: the
\* drawn <<width, height>>, each a fraction
ScaleToFit(iw, ih, draw_width, draw_height) ==
    IF draw_height > 0 /\ draw_width * ih > draw_height * iw
    THEN <<<<draw_height * iw, ih>>, <<draw_height, 1>>>>
    ELSE <<<<draw_width, 1>>, <<draw_width * ih, iw>>>>

DrawScaled(el, x, pdf_y, size) == DrawImage(el, x, pdf_y, size[1], size[2])

_draw_signature(c, el, content, x, pdf_y, width, height, page_width) ==
    IF ~ImageOpens(content)
    THEN [c EXCEPT !.log = Append(@, [el |-> el, at |-> "signature"])]
    ELSE [c EXCEPT !.marks =
            Append(@, DrawScaled(el, x, pdf_y,
                                 ScaleToFit(content[3][2], content[3][3],
                                            Min(width, page_width - x - 10),
                                            Min(height, 60))))]

\* pdf_y = page_height - y - height + 1
PdfY(page_height, y, height) == page_height - y - height + 1

\* is_checked = bool(content)
IsChecked_Truthy(content) == Truthy(content)

\* is_checked = content is True or content == "true" or content == 1
IsChecked(content) ==
    \/ content = PyBool(TRUE)
    \/ EqStr(content, <<"true">>)
    \/ EqInt(content, 1)

\* the numeric fields of an element, each float(element.get(k) or default)
Num(element, key, default) == Float(Or(Get(element, key, None), PyInt(default)))

\* the colour is read without the "or" default
ColorValue_NoDefault(element) == Get(element, "color", PyStr(DefaultColor))

\* color_str = element.get("color") or "#1e3a8a"
ColorValue(element) == Or(Get(element, "color", None), PyStr(DefaultColor))

\* the "#" prefix added when missing
WithHash(s) == IF s # <<>> /\ Head(s) = "#" THEN s ELSE <<"#">> \o s

ColorStr(element) == WithHash(ColorValue(element)[2])

\* the statements of the try body before the dispatch all succeed
ParsesOk(element) ==
    /\ Num(element, "x", 0).ok
    /\ Num(element, "y", 0).ok
    /\ Num(element, "width", 100).ok
    /\ Num(element, "height", 20).ok
    /\ Num(element, "fontSize", 11).ok
    /\ Tag(ColorValue(element)) = "str"

\* any truthy content is handed to _draw_signature
IsDataImage_AnyTruthy(content) == Truthy(content)

\* content and isinstance(content, str) and content.startswith("data:image/")
IsDataImage(content) ==
    Truthy(content) /\ IsStr(content) /\ Tag(content) = "datauri"

\* the if / elif chain on el_type, on the parsed fields
Draw(c, el, el_type, content, x, pdf_y, width, height, font_size, color_str, page_width) ==
    IF \E t \in {"text", "date", "timestamp"} : EqStr(el_type, <<t>>)
    THEN _draw_text(c, el, content, x, pdf_y, font_size, color_str)
    ELSE IF EqStr(el_type, <<"checkbox">>)
    THEN IF IsChecked(content)
         THEN _draw_text(c, el, PyStr(<<"X">>), x, pdf_y, font_size, color_str)
         ELSE c
    ELSE IF EqStr(el_type, <<"signature">>)
    THEN IF IsDataImage(content)
         THEN _draw_signature(c, el, content, x, pdf_y, width, height, page_width)
         ELSE c
    ELSE c

\* the try body once every field is parsed
Dispatch(c, element, page_height, page_width) ==
    Draw(c, element.id,
         Get(element, "type", PyStr(<<>>)),
         Get(element, "content", PyStr(<<>>)),
         Num(element, "x", 0).val,
         PdfY(page_height, Num(element, "y", 0).val, Num(element, "height", 20).val),
         Num(element, "width", 100).val,
         Num(element, "height", 20).val,
         Num(element, "fontSize", 11).val,
         ColorStr(element),
         page_width)

\* one pass of the loop of _build_overlay: the try body and its except
RenderElement(c, element, page_height, page_width) ==
    IF ParsesOk(element) THEN Dispatch(c, element, page_height, page_width)
    ELSE [c EXCEPT !.log = Append(@, [el |-> element.id, at |-> "element"])]

\* the try wraps the loop instead of its body: the first error ends the loop
RECURSIVE RenderAll_AbortOnError(_, _, _, _)
RenderAll_AbortOnError(c, elements, page_height, page_width) ==
    IF elements = <<>> THEN c
    ELSE IF ~ParsesOk(Head(elements))
    THEN [c EXCEPT !.log = Append(@, [el |-> Head(elements).id, at |-> "element"])]
    ELSE RenderAll_AbortOnError(
             Dispatch(c, Head(elements), page_height, page_width),
             Tail(elements), page_height, page_width)

RECURSIVE RenderAll(_, _, _, _)
RenderAll(c, elements, page_height, page_width) ==
    IF elements = <<>> THEN c
    ELSE RenderAll(RenderElement(c, Head(elements), page_height, page_width),
                   Tail(elements), page_height, page_width)

\* c.save(): the overlay document has a page only when something was drawn
Saved(c, page_height, page_width) ==
    [pages |-> IF c.marks = <<>> THEN <<>>
               ELSE <<[height |-> page_height, width |-> page_width,
                       content |-> c.marks]>>,
     log |-> c.log]

_build_overlay(elements, page_height, page_width) ==
    Saved(RenderAll(NewCanvas, elements, page_height, page_width),
          page_height, page_width)

-----------------------------------------------------------------------------
(* services/pdf_service.py: the compositor *)

\* the content a page of a source document starts with
Orig(k) ==
    [op |-> "orig", el |-> 0, x |-> 0, y |-> 0, text |-> <<"page">>,
     font |-> k, color |-> black, w |-> <<0, 1>>, h |-> <<0, 1>>]

\* a byte buffer: empty or not, whether it starts with %PDF, whether pypdf
\* parses it, and the pages it then holds
Bytes(empty, magic, parses, pages) ==
    [empty |-> empty, magic |-> magic, parses |-> parses, pages |-> pages]

NoBytes == Bytes(TRUE, FALSE, FALSE, <<>>)

\* o.get("page", 1) == page_num - 1: the page taken as a 0-based index
PageElements_ZeroBased(objects, page_num) ==
    SelectSeq(objects, LAMBDA o : EqInt(Get(o, "page", PyInt(1)), page_num - 1))

\* (o.get("page") or 1) == page_num: every falsy page lands on page 1
PageElements_OrDefault(objects, page_num) ==
    SelectSeq(objects, LAMBDA o : EqInt(Or(Get(o, "page", None), PyInt(1)), page_num))

\* page_elements = [o for o in objects if o.get("page", 1) == page_num]
PageElements(objects, page_num) ==
    SelectSeq(objects, LAMBDA o : EqInt(Get(o, "page", PyInt(1)), page_num))

\* the overlay's content takes the place of the page's own
MergePage_Replace(page, overlay_page) ==
    [page EXCEPT !.content = overlay_page.content]

\* page.merge_page(overlay_page): the overlay's content follows the page's own
MergePage(page, overlay_page) ==
    [page EXCEPT !.content = @ \o overlay_page.content]

Ids(elements) == [i \in DOMAIN elements |-> elements[i].id]

\* if overlay_reader.pages: page.merge_page(overlay_reader.pages[0])
Merged(page, page_num, page_elements, overlay) ==
    [page |-> IF overlay.pages # <<>>
              THEN MergePage(page, overlay.pages[1]) ELSE page,
     built |-> <<[page_num |-> page_num, els |-> Ids(page_elements)]>>,
     merged |-> IF overlay.pages # <<>> THEN <<page_num>> ELSE <<>>,
     log |-> overlay.log]

\* if not page_elements: continue
Overlaid(page, page_num, page_elements) ==
    IF page_elements = <<>>
    THEN [page |-> page, built |-> <<>>, merged |-> <<>>, log |-> <<>>]
    ELSE Merged(page, page_num, page_elements,
                _build_overlay(page_elements, page.height, page.width))

\* the body of the loop over enumerate(writer.pages, start=1): the page after
\* it, and the overlay built, the merge done and the lines printed by it
FillPage(page, page_num, objects) ==
    Overlaid(page, page_num, PageElements(objects, page_num))

Then(this, page_num, rest) ==
    [pages |-> <<this.page>> \o rest.pages,
     examined |-> <<page_num>> \o rest.examined,
     built |-> this.built \o rest.built,
     merged |-> this.merged \o rest.merged,
     log |-> this.log \o rest.log]

\* the loop from page page_num on
RECURSIVE FillPages(_, _, _)
FillPages(pages, page_num, objects) ==
    IF page_num > Len(pages)
    THEN [pages |-> <<>>, examined |-> <<>>, built |-> <<>>, merged |-> <<>>,
          log |-> <<>>]
    ELSE Then(FillPage(pages[page_num], page_num, objects), page_num,
              FillPages(pages, page_num + 1, objects))

\* a reader that never rejects its input
CloneRaises_Never(original_pdf_bytes) == FALSE

\* PdfWriter(clone_from=...) raises on bytes that do not parse
CloneRaises(original_pdf_bytes) == ~original_pdf_bytes.parses

Raised ==
    [raised |-> TRUE, out |-> NoBytes, examined |-> <<>>, built |-> <<>>,
     merged |-> <<>>, log |-> <<>>]

\* writer.write(output): every page of the writer, in order
Written(r) ==
    [raised |-> FALSE, out |-> Bytes(FALSE, TRUE, TRUE, r.pages),
     examined |-> r.examined, built |-> r.built, merged |-> r.merged,
     log |-> r.log]

\* only the pages that got an overlay are written
WrittenTouched(r) ==
    [raised |-> FALSE,
     out |-> Bytes(FALSE, TRUE, TRUE,
                   SelectSeq(r.pages, LAMBDA pg : Len(pg.content) > 1)),
     examined |-> r.examined, built |-> r.built, merged |-> r.merged,
     log |-> r.log]

generate_filled_pdf_DropsUntouched(original_pdf_bytes, objects) ==
    IF CloneRaises(original_pdf_bytes) THEN Raised
    ELSE WrittenTouched(FillPages(original_pdf_bytes.pages, 1, objects))

\* the result of a call: whether it raised, the bytes returned, and what the
\* call did on the way (pages examined, overlays built and merged, lines printed)
generate_filled_pdf(original_pdf_bytes, objects) ==
    IF CloneRaises(original_pdf_bytes) THEN Raised
    ELSE Written(FillPages(original_pdf_bytes.pages, 1, objects))

-----------------------------------------------------------------------------
(* Inputs: source buffers and element lists *)

\* page k of a source document; pages of one document differ in height
SourcePage(k) ==
    [id |-> k, height |-> IF k % 2 = 1 THEN 792 ELSE 500, width |-> 612,
     content |-> <<Orig(k)>>]

SourceDoc(n) == Bytes(FALSE, TRUE, TRUE, [k \in 1..n |-> SourcePage(k)])

ValidSources == {SourceDoc(n) : n \in 0..MaxPages}

\* empty bytes, bytes without the magic, and a %PDF header with no document
InvalidSources ==
    {NoBytes, Bytes(FALSE, FALSE, FALSE, <<>>), Bytes(FALSE, TRUE, FALSE, <<>>)}

Sources == ValidSources \cup InvalidSources

Png(w, h) == DataUri("png", <<"img", w, h>>)

Base ==
    [id |-> 0, type |-> PyStr(<<"text">>), page |-> PyInt(1),
     x |-> PyInt(100), y |-> PyInt(100), width |-> PyInt(200),
     height |-> PyInt(20), content |-> PyStr(<<"A">>), fontSize |-> PyInt(12),
     color |-> PyStr(<<"#", "0", "0", "0", "0", "0", "0">>)]

TypeContent(t) ==
    CASE t = "checkbox" -> PyBool(TRUE)
      [] t = "signature" -> Png(20, 10)
      [] OTHER -> PyStr(<<"A">>)

Typed(t) == [Base EXCEPT !.type = PyStr(<<t>>), !.content = TypeContent(t)]

PageVals ==
    {Absent, None, PyStr(<<"1">>), PyBool(TRUE)}
      \cup {PyInt(n) : n \in 0..(MaxPages + 1)}

TextContents ==
    {Absent, None, PyInt(0), PyInt(7), PyStr(<<>>), PyStr(<<" ">>),
     PyStr(<<"\n", " ", "\n">>), PyStr(<<"A">>), PyStr(<<" ", "A", " ">>),
     PyStr(<<"A", "\n", "B">>), PyStr(<<"A", "\n", "\n", "B">>),
     PyStr(<<"\n", "A">>), PyStr(<<"A", "\n", " ", "B", " ", "\n", " ", "\n", "C">>)}

CheckContents ==
    {Absent, None, PyBool(TRUE), PyBool(FALSE), PyInt(0), PyInt(1), PyInt(2),
     PyStr(<<>>), PyStr(<<"true">>), PyStr(<<"false">>), PyStr(<<"yes">>),
     PyStr(<<"1">>)}

SigContents ==
    {Absent, None, PyBool(TRUE), PyStr(<<>>), PyStr(<<"hello">>), Png(20, 10),
     Png(10, 20), DataUri("jpeg", <<"img", 300, 100>>),
     DataUri("png", <<"corrupt">>), DataUri("svg+xml", <<"img", 20, 10>>)}

YVals == {Absent, PyInt(0), PyInt(100), PyStr(<<"1", "0", "0">>), PyStr(<<"abc">>)}

HVals == {Absent, PyInt(0), PyInt(20), PyInt(40)}

XVals == {Absent, PyInt(0), PyInt(600), PyStr(<<"abc">>)}

ColorVals ==
    {Absent, None, PyInt(123), PyStr(<<>>), PyStr(<<"#">>),
     PyStr(<<"#", "1", "e", "3", "a", "8", "a">>),
     PyStr(<<"f", "f", "0", "0", "0", "0">>), PyStr(<<"#", "z", "z", "z">>),
     PyStr(<<"red">>)}

FontVals == {Absent, PyInt(0), PyInt(8), PyStr(<<"x">>)}

BoxVals == {<<Absent, Absent>>, <<PyInt(150), PyInt(50)>>,
            <<PyInt(300), PyInt(100)>>, <<PyInt(0), PyInt(0)>>,
            <<PyInt(200), PyInt(0 - 5)>>}

TypeVals == {Absent, None, PyInt(1), PyStr(<<"stamp">>)}

\* the elements a request is built from: each varies a few fields of Base
Elements ==
    {[Typed(t) EXCEPT !.page = p] :
        t \in {"text", "checkbox", "signature"}, p \in PageVals}
      \cup {[Typed(t) EXCEPT !.content = c] :
              t \in {"text", "date", "timestamp"}, c \in TextContents}
      \cup {[Typed("checkbox") EXCEPT !.content = c] : c \in CheckContents}
      \cup {[Typed("signature") EXCEPT !.content = c, !.width = b[1], !.height = b[2]] :
              c \in SigContents, b \in BoxVals}
      \cup {[Typed(t) EXCEPT !.y = y, !.height = h] :
              t \in {"text", "checkbox", "signature"}, y \in YVals, h \in HVals}
      \cup {[Typed(t) EXCEPT !.x = x] : t \in {"text", "signature"}, x \in XVals}
      \cup {[Typed(t) EXCEPT !.color = c] : t \in {"text", "checkbox"}, c \in ColorVals}
      \cup {[Base EXCEPT !.fontSize = f, !.content = PyStr(<<"A", "\n", "\n", "B">>)] :
              f \in FontVals}
      \cup {[Base EXCEPT !.type = t] : t \in TypeVals}

\* the well-formed elements that surround the varied one in a request
Neighbours ==
    {[Base EXCEPT !.content = PyStr(<<"N">>)],
     [Typed("checkbox") EXCEPT !.page = PyInt(2)],
     [Typed("signature") EXCEPT !.width = PyInt(150), !.height = PyInt(50)]}

\* element i of a request carries id i (a key the renderer does not read)
WithIds(list) == [i \in DOMAIN list |-> [list[i] EXCEPT !.id = i]]

\* requests of up to MaxElems elements: one of Elements among Neighbours
ObjLists ==
    {<<>>} \cup
    UNION {
      {WithIds([i \in 1..n |-> IF i = k THEN e ELSE f[i]]) :
          e \in Elements, f \in [1..n -> Neighbours]} :
      n \in 1..MaxElems, k \in 1..MaxElems }

\* the ids Drive gives to the files it creates
FileIds == {"f1"}

NoFile == [data |-> NoBytes, version |-> 0, folder |-> "none"]

NoResult ==
    [raised |-> FALSE, out |-> NoBytes, examined |-> <<>>, built |-> <<>>,
     merged |-> <<>>, log |-> <<>>]

\* routers/backflow.py as the module is loaded: the in-memory lists are empty
\* and each itertools.count(1) has 1 as its next value
NoRecords ==
    [devices |-> <<>>, tests |-> <<>>, photos |-> <<>>, pdfs |-> <<>>,
     device_counter |-> 1, test_counter |-> 1, photo_counter |-> 1,
     pdf_counter |-> 1]

\* the technicians cache of routers/auth.py before the first fetch: no data
\* (filled tells whether data is a list or None), last_fetch 0
NoCache == [filled |-> FALSE, data |-> <<>>, last_fetch |-> 0]

\* ServiceTitanClient.__init__: no token; configured tells whether the
\* OAuth credentials are set in the environment
NoToken == [_token_cache |-> None, _token_expiry |-> 0, configured |-> TRUE]

\* ServiceTitan before the process first talks to it: tokens issued,
\* customer notes and job attachments
NoRemote == [issued |-> 0, notes |-> <<>>, attachments |-> <<>>]

\* no page loop running
NoAnswer == [ok |-> TRUE, len |-> 0, hasMore |-> <<"absent">>]

NoPager == [loop |-> "none", page |-> 1, has_more |-> TRUE, requests |-> 0, all |-> <<>>, now |-> 0, ended |-> "done", last |-> NoAnswer]

\* the customers cache of routers/jobs.py at import
NoCustomers == [data |-> <<>>, last_fetch |-> 0]

\* the variables of the ServiceTitan client, the jobs router and the remote
\* service
others == <<time, _st_client, inflight, servicetitan, pager, _customers_cache>>

OthersIdle ==
    /\ time = 0
    /\ _st_client = NoToken
    /\ inflight = <<>>
    /\ servicetitan = NoRemote
    /\ pager = NoPager
    /\ _customers_cache = NoCustomers

\* no request answered yet.  A response records the handler, the status, the
\* file and the elements of the request, and what the handler did on the
\* way: the source bytes it downloaded, whether it called generate_filled_pdf,
\* the bytes it sent to the remote store, and whether a failure was raised by
\* the handler ("http") or escaped it ("unhandled")
NoResp ==
    [handler |-> "none", status |-> 0, objects |-> <<>>, file |-> "none",
     downloaded |-> FALSE, src |-> NoBytes, filled |-> FALSE, sent |-> NoBytes,
     detail |-> "none"]

-----------------------------------------------------------------------------
(* Spec: generate_filled_pdf applied to every input *)

Init ==
    /\ call \in {[src |-> s, objects |-> o, state |-> "called", res |-> NoResult] :
                    s \in Sources, o \in ObjLists}
    /\ drive = [f \in FileIds |-> NoFile]
    /\ resp = NoResp
    /\ threads = <<>>
    /\ store = <<>>
    /\ stdout = <<>>
    /\ backflow = NoRecords
    /\ _technicians_cache = NoCache
    /\ OthersIdle

\* the call ends: the exception reaches the caller, or the bytes do
Finished(c, res) ==
    [c EXCEPT !.res = res, !.state = IF res.raised THEN "raised" ELSE "returned"]

Fill ==
    /\ call.state = "called"
    /\ call' = Finished(call, generate_filled_pdf(call.src, call.objects))
    /\ UNCHANGED <<drive, resp, threads, store, stdout, backflow, _technicians_cache, others>>

Next == Fill

Spec == Init /\ [][Next]_vars

-----------------------------------------------------------------------------
(* SpecDraft: the draft handlers of routers/drafts.py over Google Drive *)

\* the elements a draft is edited with, each with the id the client gave it
DraftElements ==
    {[Base EXCEPT !.id = 11, !.content = PyStr(<<"A", "1">>)],
     [Typed("checkbox") EXCEPT !.id = 12, !.page = PyInt(2)],
     [Base EXCEPT !.id = 13, !.y = PyInt(300),
                  !.content = PyStr(<<"B", "1", "\n", "B", "2">>)]}

RECURSIVE ById(_)
ById(elems) ==
    IF elems = {} THEN <<>>
    ELSE LET e == CHOOSE a \in elems : \A b \in elems : a.id <= b.id
         IN  <<e>> \o ById(elems \ {e})

\* one request per set of draft elements
DraftLists == {ById(es) : es \in SUBSET DraftElements}

\* bytes of files of the Drive that no draft handler wrote: an empty file,
\* bytes without the %PDF magic that pypdf rejects, and bytes without it that
\* the non-strict reader still parses
ForeignBytes ==
    {NoBytes, Bytes(FALSE, FALSE, FALSE, <<>>),
     Bytes(FALSE, FALSE, TRUE, SourceDoc(1).pages)}

\* what a file id of a request may name in the Drive
DriveFiles ==
    {NoFile} \cup {[data |-> s, version |-> 0, folder |-> "other"] : s \in ForeignBytes}

InitDraft ==
    /\ call = [src |-> NoBytes, objects |-> <<>>, state |-> "idle", res |-> NoResult]
    /\ drive \in [FileIds -> DriveFiles]
    /\ resp = NoResp
    /\ threads = <<>>
    /\ store = <<>>
    /\ stdout = <<>>
    /\ backflow = NoRecords
    /\ _technicians_cache = NoCache
    /\ OthersIdle

\* the faults of a Drive call of save_pdf_as_draft
DriveFaults == {"none", "folder", "upload"}

\* the upload of the filled bytes, unless the fill or Drive raised
Uploaded(filled, fault) ==
    IF fault = "none" /\ ~filled.raised
    THEN [success |-> TRUE, data |-> filled.out, filled |-> TRUE, sent |-> filled.out]
    ELSE [success |-> FALSE, data |-> NoBytes, filled |-> TRUE,
          sent |-> IF filled.raised THEN NoBytes ELSE filled.out]

\* GoogleDriveService.save_pdf_as_draft: the folder, the fill and the upload
\* inside one try; any exception becomes success False
save_pdf_as_draft(pdf_buffer, objects, fault) ==
    IF fault = "folder"
    THEN [success |-> FALSE, data |-> NoBytes, filled |-> FALSE, sent |-> NoBytes]
    ELSE Uploaded(generate_filled_pdf(pdf_buffer, objects), fault)

\* raise HTTPException(status, ...) before the fill
Reject(status, downloaded, src) ==
    [status |-> status, downloaded |-> downloaded, src |-> src, filled |-> FALSE,
     sent |-> NoBytes, detail |-> "http"]

\* the request ends after the fill was called
Outcome(status, src, sent, detail) ==
    [status |-> status, downloaded |-> TRUE, src |-> src, filled |-> TRUE,
     sent |-> sent, detail |-> detail]

\* if not original_pdf or original_pdf[:4] != b"%PDF"
NotPdf(bytes) == bytes.empty \/ ~bytes.magic

SaveOutcome(hasFields, src, stOk, result) ==
    IF ~hasFields THEN Reject(400, FALSE, NoBytes)
    ELSE IF ~stOk THEN Reject(500, FALSE, NoBytes)
    ELSE IF NotPdf(src) THEN Reject(500, TRUE, src)
    ELSE IF ~result.filled THEN Reject(500, TRUE, src)
    ELSE IF ~result.success THEN Outcome(500, src, result.sent, "http")
    ELSE Outcome(200, src, result.sent, "ok")

Answer(handler, f, objects, outcome, file) ==
    /\ resp' = [handler |-> handler, status |-> outcome.status,
                objects |-> objects, file |-> f,
                downloaded |-> outcome.downloaded, src |-> outcome.src,
                filled |-> outcome.filled, sent |-> outcome.sent,
                detail |-> outcome.detail]
    /\ drive' = IF outcome.status = 200 /\ f \in FileIds
                THEN [drive EXCEPT ![f] = file] ELSE drive
    /\ UNCHANGED <<call, threads, store, stdout, backflow, _technicians_cache, others>>

SaveAnswer(f, hasFields, src, objects, stOk, result) ==
    Answer("save_draft", f, objects, SaveOutcome(hasFields, src, stOk, result),
           [data |-> result.data, version |-> 0, folder |-> "draft"])

\* POST /api/drafts/save
save_draft(f, hasFields, src, objects, stOk, fault) ==
    /\ drive[f] = NoFile
    /\ SaveAnswer(f, hasFields, src, objects, stOk,
                  save_pdf_as_draft(src, objects, fault))

UpdateOutcome(hasFields, downloaded, src, filled, updateOk) ==
    IF ~hasFields THEN Reject(400, FALSE, NoBytes)
    ELSE IF ~downloaded THEN Reject(500, FALSE, NoBytes)
    ELSE IF filled.raised THEN Outcome(500, src, NoBytes, "unhandled")
    ELSE IF ~updateOk THEN Outcome(500, src, filled.out, "http")
    ELSE Outcome(200, src, filled.out, "ok")

UpdateAnswer(f, hasFields, objects, downloaded, filled, updateOk) ==
    Answer("update_draft", f, objects,
           UpdateOutcome(hasFields, downloaded, drive[f].data, filled, updateOk),
           [drive[f] EXCEPT !.data = filled.out, !.version = @ + 1])

\* PUT /api/drafts/update/{file_id}: the fill runs outside any try, so an
\* exception of generate_filled_pdf ends the request with a 500
update_draft(f, hasFields, objects, downloadOk, updateOk) ==
    /\ drive[f].version < MaxUpdates
    /\ UpdateAnswer(f, hasFields, objects, drive[f] # NoFile /\ downloadOk,
                    generate_filled_pdf(drive[f].data, objects), updateOk)

AttachmentOutcome(hasElements, downloadOk, src, filled, uploadOk) ==
    IF ~hasElements THEN Reject(400, FALSE, NoBytes)
    ELSE IF ~downloadOk THEN Reject(500, FALSE, NoBytes)
    ELSE IF NotPdf(src) THEN Reject(500, TRUE, src)
    ELSE IF filled.raised THEN Outcome(500, src, NoBytes, "http")
    ELSE IF ~uploadOk THEN Outcome(500, src, filled.out, "http")
    ELSE Outcome(200, src, filled.out, "ok")

\* POST /api/job/{job_id}/attachment/{attachment_id}/save: the filled form
\* goes to ServiceTitan, the Drive is not touched
save_attachment(hasElements, downloadOk, src, objects, uploadOk) ==
    Answer("save_attachment", "none", objects,
           AttachmentOutcome(hasElements /\ objects # <<>>, downloadOk, src,
                             generate_filled_pdf(src, objects), uploadOk),
           NoFile)

\* the attachments ServiceTitan may return, and the editableElements sent
AttachmentSources == {SourceDoc(MaxPages)} \cup InvalidSources

AttachmentLists == {<<>>, ById(DraftElements)}

NextDraft ==
    \/ \E f \in FileIds, hasFields, stOk \in BOOLEAN, fault \in DriveFaults,
          src \in Sources, objects \in DraftLists :
          save_draft(f, hasFields, src, objects, stOk, fault)
    \/ \E f \in FileIds, hasFields, downloadOk, updateOk \in BOOLEAN,
          objects \in DraftLists :
          update_draft(f, hasFields, objects, downloadOk, updateOk)
    \/ \E hasElements, downloadOk, uploadOk \in BOOLEAN,
          src \in AttachmentSources, objects \in AttachmentLists :
          save_attachment(hasElements, downloadOk, src, objects, uploadOk)

SpecDraft == InitDraft /\ [][NextDraft]_vars

-----------------------------------------------------------------------------
(* SpecThreads: fills running in worker threads (asyncio.to_thread), each a  *)
(* sequence of steps of generate_filled_pdf on its own writer and canvas     *)

Threads == {"t1", "t2"}

BufIds == {"a", "b"}

\* an element whose y float() rejects
Unrenderable(id) == [Base EXCEPT !.id = id, !.y = PyStr(<<"abc">>)]

\* the element lists of the concurrent requests
ThreadLists ==
    {<<>>,
     <<ById(DraftElements)[1], Unrenderable(14)>>,
     <<Unrenderable(14), ById(DraftElements)[3], Unrenderable(15)>>,
     <<ById(DraftElements)[2], ById(DraftElements)[1]>>}

\* a fill that was handed its arguments and has not run yet; src names the
\* buffer it was given, given is what the buffer held at the call
NewThread(b, bytes, objects) ==
    [src |-> b, given |-> bytes, objects |-> objects, pc |-> "called",
     page_num |-> 0, writer |-> <<>>, pending |-> <<>>, els |-> <<>>,
     canvas |-> NewCanvas, out |-> NoBytes]

Stores == {[b \in BufIds |-> IF b = "a" THEN SourceDoc(MaxPages) ELSE other] :
              other \in {SourceDoc(1), NoBytes}}

InitThreads ==
    /\ call = [src |-> NoBytes, objects |-> <<>>, state |-> "idle", res |-> NoResult]
    /\ drive = [f \in FileIds |-> NoFile]
    /\ resp = NoResp
    /\ store \in Stores
    /\ threads \in {[t \in Threads |-> NewThread(b[t], store[b[t]], o[t])] :
                       b \in [Threads -> BufIds], o \in [Threads -> ThreadLists]}
    /\ stdout = <<>>
    /\ backflow = NoRecords
    /\ _technicians_cache = NoCache
    /\ OthersIdle

\* writer = PdfWriter(clone_from=io.BytesIO(original_pdf_bytes))
Cloned(th, bytes) ==
    IF CloneRaises(bytes) THEN [th EXCEPT !.pc = "raised"]
    ELSE [th EXCEPT !.pc = "page", !.writer = bytes.pages, !.page_num = 1]

Clone(t) ==
    /\ threads[t].pc = "called"
    /\ threads' = [threads EXCEPT ![t] = Cloned(@, store[@.src])]
    /\ UNCHANGED <<call, drive, resp, store, stdout, backflow, _technicians_cache, others>>

\* the head of the loop: the elements of the page, and the continue
Selected(th, page_elements) ==
    IF page_elements = <<>> THEN [th EXCEPT !.page_num = @ + 1]
    ELSE [th EXCEPT !.pc = "overlay", !.els = page_elements,
                    !.pending = page_elements, !.canvas = NewCanvas]

Select(t) ==
    /\ threads[t].pc = "page"
    /\ threads[t].page_num <= Len(threads[t].writer)
    /\ threads' = [threads EXCEPT
                     ![t] = Selected(@, PageElements(@.objects, @.page_num))]
    /\ UNCHANGED <<call, drive, resp, store, stdout, backflow, _technicians_cache, others>>

\* the lines a thread printed: those the canvas record gained
Printed(t, before, after) ==
    [k \in 1..(Len(after.log) - Len(before.log)) |->
        [thread |-> t, el |-> after.log[Len(before.log) + k].el]]

Rendered(t, th, c) ==
    /\ threads' = [threads EXCEPT ![t] = [th EXCEPT !.canvas = c,
                                                    !.pending = Tail(@)]]
    /\ stdout' = stdout \o Printed(t, th.canvas, c)

\* one pass of the loop of _build_overlay, on the canvas of this call
Render(t) ==
    /\ threads[t].pc = "overlay"
    /\ threads[t].pending # <<>>
    /\ Rendered(t, threads[t],
                RenderElement(threads[t].canvas, Head(threads[t].pending),
                              threads[t].writer[threads[t].page_num].height,
                              threads[t].writer[threads[t].page_num].width))
    /\ UNCHANGED <<call, drive, resp, store, backflow, _technicians_cache, others>>

\* merge_page writes into the pages of the buffer the writer was read from
SourceAfterMerge_InPlace(bytes, page_num, page) ==
    IF page_num \in DOMAIN bytes.pages
    THEN [bytes EXCEPT !.pages[page_num] = page] ELSE bytes

\* the writer holds a clone: merge_page leaves the source buffer as it was
SourceAfterMerge(bytes, page_num, page) == bytes

MergedInto(t, th, page) ==
    /\ threads' = [threads EXCEPT ![t] = [th EXCEPT !.writer[th.page_num] = page,
                                                    !.page_num = @ + 1,
                                                    !.pc = "page"]]
    /\ store' = [store EXCEPT ![th.src] = SourceAfterMerge(@, th.page_num, page)]

\* c.save(), PdfReader(overlay_bytes) and page.merge_page
Merge(t) ==
    /\ threads[t].pc = "overlay"
    /\ threads[t].pending = <<>>
    /\ MergedInto(t, threads[t],
                  Merged(threads[t].writer[threads[t].page_num],
                         threads[t].page_num, threads[t].els,
                         Saved(threads[t].canvas,
                               threads[t].writer[threads[t].page_num].height,
                               threads[t].writer[threads[t].page_num].width)).page)
    /\ UNCHANGED <<call, drive, resp, stdout, backflow, _technicians_cache, others>>

Wrote(th) ==
    [th EXCEPT !.pc = "returned", !.out = Bytes(FALSE, TRUE, TRUE, th.writer)]

\* writer.write(output); return output.getvalue()
Write(t) ==
    /\ threads[t].pc = "page"
    /\ threads[t].page_num > Len(threads[t].writer)
    /\ threads' = [threads EXCEPT ![t] = Wrote(@)]
    /\ UNCHANGED <<call, drive, resp, store, stdout, backflow, _technicians_cache, others>>

NextThreads ==
    \E t \in Threads : Clone(t) \/ Select(t) \/ Render(t) \/ Merge(t) \/ Write(t)

SpecThreads == InitThreads /\ [][NextThreads]_vars

-----------------------------------------------------------------------------
(* routers/backflow.py: the TCEQ report, filled by field name *)

\* a dict is a function from the keys it holds to their values
DictGet(d, key, default) == IF key \in DOMAIN d THEN d[key] ELSE default

\* the entries of text_values: the form field, the dict and the key its value
\* is read from, and "str" when the value goes through str(... or "")
TextFieldRows ==
    {<<"Text Field", "city_info", "pwsName", "get">>,
     <<"Text Field_1", "city_info", "pwsId", "get">>,
     <<"Text Field_2", "city_info", "pwsAddress", "get">>,
     <<"Text Field_3", "city_info", "pwsContact", "get">>,
     <<"Text Field_4", "args", "service_address", "get">>,
     <<"Text Field_5", "args", "customer_name", "get">>,
     <<"Text Field_6", "device", "manufacturerMain", "get">>,
     <<"Text Field_6_1_2", "device", "modelMain", "get">>,
     <<"Text Field_6_1_2_5", "device", "sizeMain", "get">>,
     <<"Text Field_6_1_2_5_1", "device", "serialMain", "get">>,
     <<"Text Field_6_1", "device", "manufacturerBypass", "get">>,
     <<"Text Field_6_1_2_1", "device", "modelBypass", "get">>,
     <<"Text Field_6_1_2_3", "device", "serialBypass", "get">>,
     <<"Text Field_6_1_1", "device", "bpaLocation", "get">>,
     <<"Text Field_6_1_2_2", "device", "bpaServes", "get">>,
     <<"Text Field_6_1_2_3_1", "device", "sizeBypass", "get">>,
     <<"Text Field_6_1_2_3_2", "test", "oldSerial", "get">>,
     <<"Text Field_6_1_2_4_1", "test", "testDateInitial", "get">>,
     <<"Text Field_6_1_2_4", "test", "testTimeInitial", "get">>,
     <<"Text Field_6_1_2_3_2_1", "test", "firstCheckReadingInitial", "str">>,
     <<"Text Field_6_1_2_3_2_1_1", "test", "secondCheckReadingInitial", "str">>,
     <<"Text Field_6_1_2_3_2_1_1_1", "test", "reliefValveReadingInitial", "str">>,
     <<"Text Field_6_1_2_3_2_1_1_2", "test", "typeIIBypassCheckReadingInitial", "str">>,
     <<"Text Field_6_1_2_3_2_1_1_2_1", "test", "airInletReadingInitial", "str">>,
     <<"Text Field_6_1_2_3_2_1_1_2_3", "test", "checkValveReadingInitial", "str">>,
     <<"Text Field_6_1_2_3_2_1_1_2_10_1_5", "test", "repairsMain", "get">>,
     <<"Text Field_6_1_2_3_2_1_1_2_10_1_5_1", "test", "repairsBypass", "get">>,
     <<"Text Field_6_1_2_3_2_1_1_2_4", "test", "firstCheckReadingAfterRepair", "str">>,
     <<"Text Field_6_1_2_3_2_1_1_2_5", "test", "secondCheckReadingAfterRepair", "str">>,
     <<"Text Field_6_1_2_3_2_1_1_2_6", "test", "reliefValveReadingAfterRepair", "str">>,
     <<"Text Field_6_1_2_3_2_1_1_2_7", "test", "typeIIBypassCheckReadingAfterRepair", "str">>,
     <<"Text Field_6_1_2_3_2_1_1_2_8", "test", "airInletReadingAfterRepair", "str">>,
     <<"Text Field_6_1_2_3_2_1_1_2_9", "test", "checkValveReadingAfterRepair", "str">>,
     <<"Text Field_6_1_2_4_1_1", "test", "testDateAfterRepair", "get">>,
     <<"Text Field_6_1_2_4_1_1_1", "test", "testTimeAfterRepair", "get">>,
     <<"Text Field_6_1_2_3_2_1_1_2_10", "company", "name", "get">>,
     <<"Text Field_6_1_2_3_2_1_1_2_10_1", "company", "phone", "get">>,
     <<"Text Field_6_1_2_3_2_1_1_2_10_1_1", "test", "testDateInitial", "get">>,
     <<"Text Field_6_1_2_3_2_1_1_2_10_1_5_2", "company", "address", "get">>,
     <<"Text Field_6_1_2_3_2_1_1_2_10_1_2", "technician", "bpatLicenseNumber", "get">>,
     <<"Text Field_6_1_2_3_2_1_1_2_10_1_3", "technician", "licenseExpirationDate", "get">>,
     <<"Text Field_6_1_2_3_2_1_1_2_10_1_4", "technician", "name", "get">>}

TextFieldNames == {row[1] : row \in TextFieldRows}

\* d.get(key, ""), or str(d.get(key, "") or "")
TextValue(row, env) ==
    IF row[4] = "str"
    THEN PyStr(StrOf(Or(DictGet(env[row[2]], row[3], PyStr(<<>>)), PyStr(<<>>))))
    ELSE DictGet(env[row[2]], row[3], PyStr(<<>>))

\* the dict literal text_values
TextValues(env) ==
    [f \in TextFieldNames |->
        TextValue(CHOOSE row \in TextFieldRows : row[1] = f, env)]

\* every entry is kept, the empty ones too
Kept_All(text_values) == text_values

\* text_values = {k: v for k, v in text_values.items() if v}
Kept(text_values) ==
    [f \in {k \in DOMAIN text_values : Truthy(text_values[k])} |-> text_values[f]]

\* type_checkbox_map
TypeCheckboxRows ==
    {<<"DC", "Check Box_2">>, <<"RPZ", "Check Box_2_1">>,
     <<"DCDA", "Check Box_2_4">>, <<"RPDA", "Check Box_2_5">>,
     <<"PVB", "Check Box_2_7">>, <<"SVB", "Check Box_2_8">>,
     <<"DCDA Type II", "Check Box_2_3">>, <<"RPDA Type II", "Check Box_2_6">>}

\* test.get(key) == word
Is(test, key, word) == EqStr(DictGet(test, key, None), <<word>>)

\* the one of two boxes an if / else, or an if / elif, ticks
Either(cond, box, other, box2) ==
    IF cond THEN {box} ELSE IF other THEN {box2} ELSE {}

\* check_values: the names of the check boxes set to True
CheckValues(device, test) ==
    {row[2] : row \in {r \in TypeCheckboxRows :
                          EqStr(DictGet(device, "typeMain", PyStr(<<>>)), <<r[1]>>)}}
      \cup Either(EqStr(DictGet(test, "reasonForTest", PyStr(<<"Existing">>)), <<"New">>),
                  "Check Box",
                  EqStr(DictGet(test, "reasonForTest", PyStr(<<"Existing">>)), <<"Existing">>),
                  "Check Box_1")
      \cup Either(Is(test, "installedPerCode", "Yes"), "Check Box_2_27", FALSE, "")
      \cup Either(Is(test, "installedOnNonPotableAuxiliary", "Yes"), "Check Box_2_28",
                  FALSE, "")
      \cup Either(Is(test, "firstCheckClosedTightInitial", "Closed Tight"),
                  "Check Box_2_11", TRUE, "Check Box_2_12")
      \cup Either(Is(test, "secondCheckClosedTightInitial", "Closed Tight"),
                  "Check Box_2_9", TRUE, "Check Box_2_10")
      \cup Either(Is(test, "reliefValveDidNotOpenInitial", "Did not open"),
                  "Check Box_2_13", FALSE, "")
      \cup Either(Is(test, "airInletDidNotOpenInitial", "Yes"), "Check Box_2_14",
                  FALSE, "")
      \cup Either(Is(test, "checkValveLeakedInitial", "No"), "Check Box_2_15", FALSE, "")
      \cup Either(Is(test, "firstCheckClosedTightAfterRepair", "Closed Tight"),
                  "Check Box_2_16",
                  Is(test, "firstCheckClosedTightAfterRepair", "Leaked"),
                  "Check Box_2_17")
      \cup Either(Is(test, "secondCheckClosedTightAfterRepair", "Closed Tight"),
                  "Check Box_2_18",
                  Is(test, "secondCheckClosedTightAfterRepair", "Leaked"),
                  "Check Box_2_19")
      \cup Either(Is(test, "typeIIBypassClosedTightAfterRepair", "Closed Tight"),
                  "Check Box_2_21", FALSE, "")
      \cup Either(EqStr(DictGet(test, "differentialPressureGaugeType",
                                PyStr(<<"Potable">>)), <<"Potable">>),
                  "Check Box_2_32", TRUE, "Check Box_2_33")

\* every check box the code knows, those not checked written as "/Off"
CheckUpdates_OffToo(checked) ==
    [f \in checked \cup {row[2] : row \in TypeCheckboxRows} |->
        IF f \in checked THEN PyStr(<<"/Yes">>) ELSE PyStr(<<"/Off">>)]

\* the loop over check_values: {field_name: "/Yes"} for each checked name
CheckUpdates(checked) == [f \in checked |-> PyStr(<<"/Yes">>)]

\* writer.update_page_form_field_values(page, values): the fields of the page
\* named in values take the value, a name the page does not hold is ignored
update_page_form_field_values(form, values) ==
    [f \in DOMAIN form |-> IF f \in DOMAIN values THEN values[f] ELSE form[f]]

\* a text value pypdf is handed that is not a str
NonStrText(values) == \E f \in DOMAIN values : Tag(values[f]) # "str"

\* the text values as pypdf stores them
Stored(values) == [f \in DOMAIN values |-> PyStr(StrOf(values[f]))]

\* the filled form and what was passed to pypdf on the way
Filled(form, texts, checks) ==
    [raised |-> FALSE, renderer |-> "tceq",
     form |-> update_page_form_field_values(
                  update_page_form_field_values(form, Stored(texts)), checks),
     texts |-> texts, checks |-> checks, lines |-> <<>>]

FillRaised ==
    [raised |-> TRUE, renderer |-> "tceq", form |-> <<>>, texts |-> <<>>,
     checks |-> <<>>, lines |-> <<>>]

\* _fill_tceq_pdf: template is the form of forms/TCEQ.pdf and whether it can
\* be read; env holds the dicts and the two strings it is called with; lenient
\* tells whether pypdf takes a text value that is not a str
FilledWith(form, texts, checks, lenient) ==
    IF NonStrText(texts) /\ ~lenient THEN FillRaised
    ELSE Filled(form, texts, checks)

_fill_tceq_pdf(template, env, lenient) ==
    IF ~template.readable \/ ~env.technician_is_dict \/ ~env.company_is_dict
    THEN FillRaised
    ELSE FilledWith(template.form, Kept(TextValues(env)),
                    CheckUpdates(CheckValues(env.device, env.test)), lenient)

-----------------------------------------------------------------------------
(* routers/backflow.py: the reference sheet, save_test and generate_pdf *)

\* draw_field(label, value) for each of these, value being d.get(key) or ""
ReferenceRows ==
    <<<<"PWS ID#:", "city_info", "pwsId">>,
      <<"PWS Address:", "city_info", "pwsAddress">>,
      <<"PWS Contact:", "city_info", "pwsContact">>,
      <<"Type:", "device", "typeMain">>,
      <<"Manufacturer:", "device", "manufacturerMain">>,
      <<"Model:", "device", "modelMain">>,
      <<"Serial Number:", "device", "serialMain">>,
      <<"Size:", "device", "sizeMain">>,
      <<"Test Date:", "test", "testDateInitial">>,
      <<"Test Time:", "test", "testTimeInitial">>>>

\* c.drawString(250, y, value or "N/A")
FieldLine(label, value) == <<label, Or(value, PyStr(<<"N/A">>))>>

\* the readings, drawn as f"{reading} PSI" when truthy
ReadingRows ==
    <<<<"1st Check Reading:", "firstCheckReadingInitial">>,
      <<"2nd Check Reading:", "secondCheckReadingInitial">>,
      <<"Relief Valve Reading:", "reliefValveReadingInitial">>>>

Readings(test) ==
    SelectSeq(ReadingRows, LAMBDA row : Truthy(DictGet(test, row[2], None)))

ReadingLines(test) ==
    [k \in DOMAIN Readings(test) |->
        <<Readings(test)[k][1],
          PyStr(StrOf(DictGet(test, Readings(test)[k][2], None)) \o <<" PSI">>)>>]

\* the draw_field calls of _generate_reference_pdf, in order
ReferenceLines(device, test, city_info, city_code) ==
    <<FieldLine("Public Water Supplier:",
                Or(DictGet(city_info, "pwsName", None), city_code))>>
      \o [k \in DOMAIN ReferenceRows |->
            FieldLine(ReferenceRows[k][1],
                      Or(DictGet([city_info |-> city_info, device |-> device,
                                  test |-> test][ReferenceRows[k][2]],
                                 ReferenceRows[k][3], None), PyStr(<<>>)))]
      \o <<FieldLine("Result:", Or(DictGet(test, "testResult", None),
                                   PyStr(<<"Not Tested">>)))>>
      \o ReadingLines(test)

\* drawString raises on a text that is neither str nor bytes
Drawn(lines) ==
    IF \E k \in DOMAIN lines : Tag(lines[k][2]) # "str"
    THEN [raised |-> TRUE, renderer |-> "reference", form |-> <<>>,
          texts |-> <<>>, checks |-> <<>>, lines |-> <<>>]
    ELSE [raised |-> FALSE, renderer |-> "reference", form |-> <<>>,
          texts |-> <<>>, checks |-> <<>>, lines |-> lines]

_generate_reference_pdf(device, test, city_info, city_code) ==
    Drawn(ReferenceLines(device, test, city_info, city_code))

\* {**a, **b}
MergeDicts(a, b) ==
    [k \in DOMAIN a \cup DOMAIN b |-> IF k \in DOMAIN b THEN b[k] ELSE a[k]]

\* f"device-{n}", f"test-{n}", f"pdf-{n}"
IdOf(prefix, n) == PyStr(<<prefix>> \o DecimalOf(n))

Now == PyStr(<<"now">>)

\* the index of the first item of list whose key is value, 0 when none
IndexOf(list, key, value) ==
    IF \E i \in DOMAIN list : DictGet(list[i], key, None) = value
    THEN CHOOSE i \in DOMAIN list :
            /\ DictGet(list[i], key, None) = value
            /\ \A j \in 1..(i - 1) : DictGet(list[j], key, None) # value
    ELSE 0

\* the cities excel_parser knows, by lower-case code
Cities ==
    [austin |-> [pwsName |-> PyStr(<<"Austin Water">>), pwsId |-> PyStr(<<"TX1">>),
                 pwsAddress |-> PyStr(<<>>), pwsContact |-> PyStr(<<>>)]]

\* the upper-case items of the strings of the model and their lower case
LowerCase == [Austin |-> "austin", J |-> "j", D |-> "d"]

\* str.lower()
Lower(chars) ==
    [k \in DOMAIN chars |->
        IF chars[k] \in DOMAIN LowerCase THEN LowerCase[chars[k]] ELSE chars[k]]

\* excel_parser.get_city_info(city_code) or {}
CityInfo(city_code) ==
    IF Truthy(city_code) /\ Len(Lower(city_code[2])) = 1
       /\ Lower(city_code[2])[1] \in DOMAIN Cities
    THEN Cities[Lower(city_code[2])[1]] ELSE <<>>

\* the response of a backflow handler and what it did on the way
Reply(handler, status, data, doc, fill, request) ==
    [handler |-> handler, status |-> status, data |-> data, doc |-> doc,
     fill |-> fill, request |-> request]

NoDoc ==
    [raised |-> FALSE, renderer |-> "none", form |-> <<>>, texts |-> <<>>,
     checks |-> <<>>, lines |-> <<>>]

\* the device save_test keeps: an entry of the list merged with the one sent,
\* or a new one whose generated id the sent dict may override
SavedDevice(devices, device, n) ==
    IF Head(StrOf(Or(DictGet(device, "id", None), PyStr(<<"">>)))) = "device-"
       /\ IndexOf(devices, "id", DictGet(device, "id", None)) # 0
    THEN [at |-> IndexOf(devices, "id", DictGet(device, "id", None)),
          dict |-> MergeDicts(devices[IndexOf(devices, "id", DictGet(device, "id", None))],
                         device),
          counter |-> n]
    ELSE [at |-> Len(devices) + 1,
          dict |-> MergeDicts(MergeDicts([id |-> IdOf("device-", n)], device),
                         [createdAt |-> Now]),
          counter |-> n + 1]

Put(list, at, dict) ==
    IF at \in DOMAIN list THEN [list EXCEPT ![at] = dict] ELSE Append(list, dict)

\* the test record save_test keeps, for the device saved
SavedTest(tests, new_test, device_id) ==
    IF IndexOf(tests, "deviceId", device_id) # 0
    THEN [at |-> IndexOf(tests, "deviceId", device_id),
          dict |-> MergeDicts(tests[IndexOf(tests, "deviceId", device_id)], new_test)]
    ELSE [at |-> Len(tests) + 1, dict |-> new_test]

NewTest(saved_device, test, n) ==
    MergeDicts(MergeDicts([id |-> IdOf("test-", n), deviceId |-> saved_device.id], test),
          [createdAt |-> Now])

TestSaved(sd, st, request) ==
    /\ backflow' = [backflow EXCEPT
                      !.devices = Put(@, sd.at, sd.dict),
                      !.device_counter = sd.counter,
                      !.tests = Put(@, st.at, st.dict),
                      !.test_counter = @ + 1]
    /\ resp' = Reply("save_test", 200, st.dict, NoDoc, NoDoc, request)
    /\ UNCHANGED <<call, drive, threads, store, stdout, _technicians_cache, others>>

DeviceSaved(sd, test, request) ==
    TestSaved(sd, SavedTest(backflow.tests,
                            NewTest(sd.dict, test, backflow.test_counter),
                            sd.dict.id), request)

\* the ids handed out so far: each save_test takes a test id and each
\* generate_pdf that records a document a pdf id
Requests == (backflow.test_counter - 1) + (backflow.pdf_counter - 1)

\* POST /api/backflow-tests/save
save_test(device, test) ==
    /\ Requests < MaxRequests
    /\ DeviceSaved(SavedDevice(backflow.devices, device, backflow.device_counter),
                   test, [device |-> device, test |-> test])

\* the check boxes _fill_tceq_pdf may tick
CheckBoxNames ==
    {row[2] : row \in TypeCheckboxRows}
      \cup {"Check Box", "Check Box_1", "Check Box_2_9", "Check Box_2_10",
            "Check Box_2_11", "Check Box_2_12", "Check Box_2_13", "Check Box_2_14",
            "Check Box_2_15", "Check Box_2_16", "Check Box_2_17", "Check Box_2_18",
            "Check Box_2_19", "Check Box_2_21", "Check Box_2_27", "Check Box_2_28",
            "Check Box_2_32", "Check Box_2_33"}

\* the value a field of the template holds before the fill
Preset(f) ==
    CASE f \in {"Text Field_5", "Text Field_6"} -> PyStr(<<"preset">>)
      [] f \in {"Check Box_2_4", "Check Box_2_12", "Check Box_2_28", "Check Box_2_2"}
           -> PyStr(<<"/Yes">>)
      [] f \in TextFieldNames -> PyStr(<<>>)
      [] OTHER -> PyStr(<<"/Off">>)

FormOf(fields) == [f \in fields |-> Preset(f)]

\* forms/TCEQ.pdf as it is, a revision of it that lost some fields and has
\* one the code does not know, and a file that cannot be read
CurrentForm == [readable |-> TRUE, form |-> FormOf(TextFieldNames \cup CheckBoxNames)]

RevisedFields ==
    ((TextFieldNames \cup CheckBoxNames)
        \ {"Text Field_4", "Text Field_6_1_2_5", "Check Box_2_1", "Check Box_2_33"})
      \cup {"Check Box_2_2"}

RevisedForm == [readable |-> TRUE, form |-> FormOf(RevisedFields)]

Unreadable_pdf == [readable |-> FALSE, form |-> <<>>]

\* what a generate_pdf request finds around it: the template, whether pypdf
\* takes a text value that is not a str, and how the upload ends
Environments ==
    {[template |-> CurrentForm, lenient |-> TRUE, upload |-> "ok"],
     [template |-> CurrentForm, lenient |-> FALSE, upload |-> "failed"],
     [template |-> RevisedForm, lenient |-> TRUE, upload |-> "error"],
     [template |-> RevisedForm, lenient |-> FALSE, upload |-> "ok"],
     [template |-> Unreadable_pdf, lenient |-> TRUE, upload |-> "ok"],
     [template |-> Unreadable_pdf, lenient |-> FALSE, upload |-> "failed"]}

Word(w) == PyStr(<<w>>)

\* the device and test dicts a client sends to save_test
DeviceBodies ==
    {[typeMain |-> Word("RPZ"), manufacturerMain |-> Word("Watts"),
      serialMain |-> Word("S1"), sizeMain |-> Word("2in")],
     [typeMain |-> Word("XX"), manufacturerMain |-> PyStr(<<>>), modelMain |-> None],
     [typeMain |-> Word("DC"), serialMain |-> Word("S3"), sizeMain |-> PyInt(2)],
     [id |-> IdOf("device-", 1), manufacturerMain |-> Word("Febco")]}

TestBodies ==
    {<<>>,
     [reasonForTest |-> Word("New"), firstCheckReadingInitial |-> PyInt(5),
      firstCheckClosedTightInitial |-> Word("Closed Tight"),
      testDateInitial |-> Word("2024-01-02"), installedPerCode |-> Word("Yes"),
      differentialPressureGaugeType |-> Word("Potable")],
     [reasonForTest |-> Word("Replacement"), firstCheckReadingInitial |-> PyInt(0),
      secondCheckReadingInitial |-> Word("7.5"), oldSerial |-> PyStr(<<>>),
      firstCheckClosedTightAfterRepair |-> Word("Leaked"),
      differentialPressureGaugeType |-> Word("Non-Potable"),
      testResult |-> Word("Passed")],
     [reasonForTest |-> None, secondCheckClosedTightAfterRepair |-> Word("Closed Tight"),
      checkValveLeakedInitial |-> Word("No"), repairsMain |-> Word("seal")]}

\* the bodies sent to generate_pdf but for the two ids
PdfBodies ==
    {[cityCode |-> Word("Austin"), technician |-> [name |-> Word("Tom"),
                                                  bpatLicenseNumber |-> Word("L1")],
      technician_is_dict |-> TRUE, company |-> [name |-> Word("Co")],
      company_is_dict |-> TRUE, customerName |-> Word("Bob"),
      serviceAddress |-> Word("1 Main")],
     [cityCode |-> PyStr(<<>>), technician |-> <<>>, technician_is_dict |-> TRUE,
      company |-> <<>>, company_is_dict |-> TRUE, customerName |-> PyStr(<<>>),
      serviceAddress |-> PyStr(<<>>)],
     [cityCode |-> None, technician |-> <<>>, technician_is_dict |-> FALSE,
      company |-> <<>>, company_is_dict |-> TRUE, customerName |-> Word("Bob"),
      serviceAddress |-> PyStr(<<>>)],
     [cityCode |-> Word("nowhere"), technician |-> <<>>, technician_is_dict |-> TRUE,
      company |-> <<>>, company_is_dict |-> FALSE, customerName |-> PyStr(<<>>),
      serviceAddress |-> Word("1 Main")]}

\* the ids a request names: those of the first save_test, and unknown ones
IdPairs ==
    {<<IdOf("device-", 1), IdOf("test-", 1)>>, <<IdOf("device-", 9), IdOf("test-", 1)>>,
     <<IdOf("device-", 1), IdOf("test-", 9)>>}

\* what generate_pdf passes to _fill_tceq_pdf
FillEnv(body, device, test) ==
    [city_info |-> CityInfo(body.cityCode), device |-> device, test |-> test,
     company |-> body.company, technician |-> body.technician,
     args |-> [service_address |-> body.serviceAddress,
               customer_name |-> body.customerName],
     technician_is_dict |-> body.technician_is_dict,
     company_is_dict |-> body.company_is_dict]

\* f"TCEQ_{serial}_{date}.pdf"
FileName(device, test) ==
    <<"TCEQ_">> \o StrOf(DictGet(device, "serialMain", Word("unknown")))
      \o <<"_">> \o StrOf(DictGet(test, "testDateInitial", Word("unknown")))
      \o <<".pdf">>

PdfRecord(n, ids, body, device, test, upload) ==
    [id |-> IdOf("pdf-", n), deviceId |-> ids[1], testRecordId |-> ids[2],
     fileName |-> FileName(device, test), cityCode |-> body.cityCode,
     serviceTitanAttachmentId |-> IF upload = "ok" THEN PyInt(77) ELSE None,
     createdAt |-> Now]

\* the end of generate_pdf once a document was rendered, or the exception of
\* the reference renderer leaving the handler
Rendered_pdf(doc, fill, record, request) ==
    IF doc.raised
    THEN /\ resp' = Reply("generate_pdf", 500, <<>>, doc, fill, request)
         /\ UNCHANGED <<call, drive, threads, store, stdout, backflow, _technicians_cache, others>>
    ELSE /\ resp' = Reply("generate_pdf", 200, record, doc, fill, request)
         /\ backflow' = [backflow EXCEPT !.pdfs = Append(@, record),
                                         !.pdf_counter = @ + 1]
         /\ UNCHANGED <<call, drive, threads, store, stdout, _technicians_cache, others>>

\* try: _fill_tceq_pdf(...) except Exception: _generate_reference_pdf(...)
WithFallback(fill, body, device, test, record, request) ==
    Rendered_pdf(IF fill.raised
                 THEN _generate_reference_pdf(device, test, CityInfo(body.cityCode),
                                              body.cityCode)
                 ELSE fill,
                 fill, record, request)

Found(ids, body, device, test, template, lenient, upload) ==
    WithFallback(_fill_tceq_pdf(template, FillEnv(body, device, test), lenient),
                 body, device, test,
                 PdfRecord(backflow.pdf_counter, ids, body, device, test, upload),
                 [ids |-> ids, body |-> body, device |-> device, test |-> test,
                  template |-> template, lenient |-> lenient, upload |-> upload])

\* POST /api/backflow-pdfs/generate
generate_pdf(ids, body, template, lenient, upload) ==
    /\ Requests < MaxRequests
    /\ IF IndexOf(backflow.devices, "id", ids[1]) = 0
          \/ IndexOf(backflow.tests, "id", ids[2]) = 0
       THEN /\ resp' = Reply("generate_pdf", 404, <<>>, NoDoc, NoDoc,
                             [ids |-> ids, body |-> body])
            /\ UNCHANGED <<call, drive, threads, store, stdout, backflow, _technicians_cache, others>>
       ELSE Found(ids, body,
                  backflow.devices[IndexOf(backflow.devices, "id", ids[1])],
                  backflow.tests[IndexOf(backflow.tests, "id", ids[2])],
                  template, lenient, upload)

InitBackflow ==
    /\ call = [src |-> NoBytes, objects |-> <<>>, state |-> "idle", res |-> NoResult]
    /\ drive = [f \in FileIds |-> NoFile]
    /\ resp = NoResp
    /\ threads = <<>>
    /\ store = <<>>
    /\ stdout = <<>>
    /\ backflow = NoRecords
    /\ _technicians_cache = NoCache
    /\ OthersIdle

NextBackflow ==
    \/ \E device \in DeviceBodies, test \in TestBodies : save_test(device, test)
    \/ \E ids \in IdPairs, body \in PdfBodies, env \in Environments :
          generate_pdf(ids, body, env.template, env.lenient, env.upload)

SpecBackflow == InitBackflow /\ [][NextBackflow]_vars

-----------------------------------------------------------------------------
(* routers/auth.py and services/servicetitan.py: validate_technician *)

expiry_minutes == 30

\* the seconds of the clock at which requests arrive
Clock == {0, 1799, 1800}

\* normalize_phone: re.sub(r"\D", "", phone), "" for a falsy phone
normalize_phone(phone) ==
    IF ~Truthy(phone) THEN <<>> ELSE SelectSeq(phone[2], LAMBDA c : c \in Digits)

\* s[-10:]
Last10(s) == IF Len(s) > 10 THEN SubSeq(s, Len(s) - 9, Len(s)) ELSE s

Matched(tech_norm, user_norm) ==
    Len(tech_norm) >= 10 /\ Len(user_norm) >= 10 /\ tech_norm = user_norm

validate_phone_match(tech_phone, user_phone) ==
    /\ Truthy(tech_phone)
    /\ Truthy(user_phone)
    /\ Matched(Last10(normalize_phone(tech_phone)), Last10(normalize_phone(user_phone)))

Chars(text) == PyStr(text)

HomePhone == Chars(<<"5", "5", "5", "-", "1", "2", "3", "-", "4", "5", "6", "7">>)

\* the technician lists ServiceTitan answers with
TechnicianLists ==
    {<<[id |-> PyInt(1), name |-> Word("John"), loginName |-> Chars(<<"j", "d">>),
        phoneNumber |-> HomePhone]>>,
     <<[id |-> PyInt(2), name |-> Word("Ann"), loginName |-> None,
        phoneNumber |-> HomePhone],
       [id |-> PyInt(3), name |-> Word("Jo"), loginName |-> Chars(<<"J", "d">>),
        phoneNumber |-> Chars(<<"1", "5", "5", "5", "1", "2", "3", "4", "5", "6", "7">>)]>>,
     <<[id |-> PyInt(4), name |-> Word("Jim"), loginName |-> Chars(<<"j", "d">>)],
       [id |-> PyInt(1), name |-> Word("John"), loginName |-> Chars(<<"j", "d">>),
        phoneNumber |-> HomePhone]>>}

\* what the fetch of the list gives: a list, or the message of the exception
Fetches ==
    {[raised |-> FALSE, data |-> list, msg |-> <<>>] : list \in TechnicianLists}
      \cup {[raised |-> TRUE, data |-> <<>>, msg |-> <<"OAuth2", " failed: 401">>],
            [raised |-> TRUE, data |-> <<>>, msg |-> <<"API call failed: ", "500">>]}

\* the bodies of the requests
ValidateRequests ==
    [username : {Chars(<<"j", "d">>), Chars(<<"J", "D">>), Chars(<<"x">>), Chars(<<>>)},
     phone : {Chars(<<"5", "5", "5", "1", "2", "3", "4", "5", "6", "7">>),
              Chars(<<"+", "1", " ", "5", "5", "5", "1", "2", "3", "4", "5", "6", "7">>),
              Chars(<<"5", "5", "5", "1", "2", "3", "4", "5", "6", "8">>),
              Chars(<<"4", "5", "6", "7">>)}]

\* the outcomes of the fetch of the full profile
Profiles == {"error", "full"}

\* get_all_technicians: the cached list while it is fresh, else the fetched
\* one, which becomes the cache; the exception of the fetch leaves the cache
get_all_technicians(now, fetched) ==
    IF _technicians_cache.filled
       /\ now < _technicians_cache.last_fetch + expiry_minutes * 60
    THEN [raised |-> FALSE, data |-> _technicians_cache.data, msg |-> <<>>,
          cache |-> _technicians_cache]
    ELSE IF fetched.raised
         THEN [raised |-> TRUE, data |-> <<>>, msg |-> fetched.msg,
               cache |-> _technicians_cache]
         ELSE [raised |-> FALSE, data |-> fetched.data, msg |-> <<>>,
               cache |-> [filled |-> TRUE, data |-> fetched.data, last_fetch |-> now]]

\* "OAuth2" in msg or "auth" in msg.lower()
MentionsAuth(msg) == \E k \in DOMAIN msg : msg[k] \in {"OAuth2", "auth", "Unauthorized"}

\* (t.get("loginName") or "").lower() == body.username.lower()
SameLogin(t, username) ==
    Lower(Or(DictGet(t, "loginName", None), PyStr(<<>>))[2]) = Lower(username[2])

\* next((t for t in technicians if ...), None): its index, 0 for None
FirstLogin(technicians, username) ==
    IF \E i \in DOMAIN technicians : SameLogin(technicians[i], username)
    THEN CHOOSE i \in DOMAIN technicians :
            /\ SameLogin(technicians[i], username)
            /\ \A j \in 1..(i - 1) : ~SameLogin(technicians[j], username)
    ELSE 0

\* api_call of the technician's endpoint
FullProfile(technician) ==
    [id |-> technician.id, name |-> Word("Full name"),
     customFields |-> <<[name |-> Word("Backflow License Number"), value |-> Word("L1")]>>]

\* technician = {**technician, **full_tech}, unless the fetch raised
WithProfile(technician, profile) ==
    IF profile = "error" THEN technician
    ELSE MergeDicts(technician, FullProfile(technician))

\* cf_get(name)
cf_get(technician, name) ==
    IF "customFields" \in DOMAIN technician
       /\ \E k \in DOMAIN technician.customFields : technician.customFields[k].name = name
    THEN Or(technician.customFields[
                CHOOSE k \in DOMAIN technician.customFields :
                    /\ technician.customFields[k].name = name
                    /\ \A j \in (k + 1)..Len(technician.customFields) :
                          technician.customFields[j].name # name].value,
            PyStr(<<>>))
    ELSE PyStr(<<>>)

\* the body of the 200
Success(technicians, technician) ==
    [success |-> TRUE,
     technician |-> [id |-> technician.id,
                     name |-> DictGet(technician, "name", None),
                     username |-> DictGet(technician, "loginName", None),
                     phoneNumber |-> DictGet(technician, "phoneNumber", None),
                     bpatLicenseNumber |->
                         cf_get(technician, Word("Backflow License Number"))],
     metadata |-> [totalTechnicians |-> Len(technicians)]]

\* the response of validate_technician and what it was decided on
Validated(status, data, listed, technicians, body, profile) ==
    [handler |-> "validate_technician", status |-> status, data |-> data,
     listed |-> listed, technicians |-> technicians, request |-> body,
     profile |-> profile]

Checked(technicians, i, body, profile) ==
    IF i = 0
    THEN Validated(404, <<>>, TRUE, technicians, body, profile)
    ELSE IF ~validate_phone_match(DictGet(technicians[i], "phoneNumber", PyStr(<<>>)),
                                  body.phone)
         THEN Validated(401, <<>>, TRUE, technicians, body, profile)
         ELSE Validated(200, Success(technicians, WithProfile(technicians[i], profile)),
                        TRUE, technicians, body, profile)

Got(got, body, profile) ==
    /\ _technicians_cache' = got.cache
    /\ resp' = IF got.raised
               THEN Validated(IF MentionsAuth(got.msg) THEN 503 ELSE 500, <<>>, FALSE,
                              <<>>, body, profile)
               ELSE Checked(got.data, FirstLogin(got.data, body.username), body, profile)
    /\ UNCHANGED <<call, drive, threads, store, stdout, backflow, others>>

\* POST /api/technician/validate
validate_technician(body, now, fetched, profile) ==
    /\ now >= _technicians_cache.last_fetch
    /\ Got(get_all_technicians(now, fetched), body, profile)

InitAuth ==
    /\ call = [src |-> NoBytes, objects |-> <<>>, state |-> "idle", res |-> NoResult]
    /\ drive = [f \in FileIds |-> NoFile]
    /\ resp = NoResp
    /\ threads = <<>>
    /\ store = <<>>
    /\ stdout = <<>>
    /\ backflow = NoRecords
    /\ _technicians_cache = NoCache
    /\ OthersIdle

NextAuth ==
    \E body \in ValidateRequests, now \in Clock, fetched \in Fetches, profile \in Profiles :
        validate_technician(body, now, fetched, profile)

SpecAuth == InitAuth /\ [][NextAuth]_vars

-----------------------------------------------------------------------------
(* services/servicetitan.py: get_access_token, with the await of the       *)
(* token request as a step of its own                                      *)

MaxFetches == 2

\* the seconds at which something happens
Instants == {0, 300, 599, 600, 900}

\* the coroutines that ask for a token
Callers == {"c1", "c2"}

\* the answers of the auth server: token_data with or without expires_in,
\* and the failures
TokenAnswers ==
    {[ok |-> TRUE, expires_in |-> PyInt(900)], [ok |-> TRUE, expires_in |-> PyInt(300)],
     [ok |-> TRUE, expires_in |-> PyInt(1200)], [ok |-> TRUE, expires_in |-> Absent],
     [ok |-> FALSE, expires_in |-> Absent]}

\* the clock moves on
Tick(later) ==
    /\ later > time
    /\ time' = later
    /\ UNCHANGED <<drive, resp, backflow, fillVars, _st_client, inflight, servicetitan, pager, _customers_cache>>

\* the cached token is served up to the second of its expiry
Cached_Inclusive(client, now) ==
    Truthy(client._token_cache) /\ now <= client._token_expiry

\* self._token_cache and time.time() < self._token_expiry
Cached(client, now) == Truthy(client._token_cache) /\ now < client._token_expiry

\* what get_access_token gave its caller, with the client as the call found it
TokenResult(c, seen, at, token, token_data, raised) ==
    [handler |-> "get_access_token", caller |-> c, seen |-> seen, at |-> at,
     token |-> token, contacted |-> token_data # <<>>, token_data |-> token_data,
     raised |-> raised]

Waiting(c) == \E k \in DOMAIN inflight : inflight[k].caller = c

\* the start of get_access_token, up to the await of the post
get_access_token(c) ==
    /\ ~Waiting(c)
    /\ IF Cached(_st_client, time)
       THEN /\ resp' = TokenResult(c, _st_client, time, _st_client._token_cache, <<>>, FALSE)
            /\ UNCHANGED inflight
       ELSE IF ~_st_client.configured
            THEN /\ resp' = TokenResult(c, _st_client, time, None, <<>>, TRUE)
                 /\ UNCHANGED inflight
            ELSE /\ inflight' = Append(inflight, [op |-> "get_access_token", caller |-> c,
                                                  seen |-> _st_client, at |-> time])
                 /\ UNCHANGED resp
    /\ UNCHANGED <<drive, backflow, fillVars, time, _st_client, servicetitan, pager, _customers_cache>>

Without(list, k) == SubSeq(list, 1, k - 1) \o SubSeq(list, k + 1, Len(list))

\* time.time() + (token_data.get("expires_in", 900) - 300)
Expiry(now, token_data) == now + (Get(token_data, "expires_in", PyInt(900))[2] - 300)

Issued(k, token, token_data) ==
    /\ servicetitan' = [servicetitan EXCEPT !.issued = @ + 1]
    /\ _st_client' = [_st_client EXCEPT !._token_cache = token,
                                        !._token_expiry = Expiry(time, token_data)]
    /\ resp' = TokenResult(inflight[k].caller, inflight[k].seen, inflight[k].at, token,
                           token_data, FALSE)

\* the rest of get_access_token once the auth server has answered
TokenResponse(k, token_data) ==
    /\ k \in DOMAIN inflight
    /\ inflight[k].op = "get_access_token"
    /\ servicetitan.issued < MaxFetches
    /\ inflight' = Without(inflight, k)
    /\ IF token_data.ok
       THEN Issued(k, IdOf("token-", servicetitan.issued + 1), token_data)
       ELSE /\ resp' = TokenResult(inflight[k].caller, inflight[k].seen, inflight[k].at,
                                   None, token_data, TRUE)
            /\ UNCHANGED <<servicetitan, _st_client>>
    /\ UNCHANGED <<drive, backflow, fillVars, time, pager, _customers_cache>>

InitToken ==
    /\ call = [src |-> NoBytes, objects |-> <<>>, state |-> "idle", res |-> NoResult]
    /\ drive = [f \in FileIds |-> NoFile]
    /\ resp = NoResp
    /\ threads = <<>>
    /\ store = <<>>
    /\ stdout = <<>>
    /\ backflow = NoRecords
    /\ _technicians_cache = NoCache
    /\ time = 0
    /\ _st_client \in {NoToken, [NoToken EXCEPT !.configured = FALSE]}
    /\ inflight = <<>>
    /\ servicetitan = NoRemote
    /\ pager = NoPager
    /\ _customers_cache = NoCustomers

NextToken ==
    \/ \E later \in Instants : Tick(later)
    \/ \E c \in Callers : get_access_token(c)
    \/ \E k \in DOMAIN inflight, token_data \in TokenAnswers : TokenResponse(k, token_data)

SpecToken == InitToken /\ [][NextToken]_vars

-----------------------------------------------------------------------------
(* routers/auth.py get_all_technicians and routers/jobs.py                 *)
(* get_technician_jobs: the page loops, one step per awaited api_call.     *)
(* A page received is kept as its length: the loops only look at the       *)
(* length of a page and at its hasMore, which is kept for the last page.   *)

page_limit == 20

technicians_page_size == 100

jobs_page_size == 500

PageSize(loop) == IF loop = "technicians" THEN technicians_page_size ELSE jobs_page_size

\* the seconds at which a loop starts or a page arrives
PageInstants == {0, 1799, 1800}

\* what the API answers to a page request: a page of some length with
\* hasMore true, false or missing, or a failure
PageAnswers(loop) ==
    [ok : {TRUE}, len : {PageSize(loop) - 1, PageSize(loop), PageSize(loop) + 1},
     hasMore : {PyBool(TRUE), PyBool(FALSE), Absent}]
      \cup {[ok |-> FALSE, len |-> 0, hasMore |-> Absent]}

\* while has_more: no limit on the pages
MayRequest_Unbounded(p) == p.has_more

\* while has_more and page <= 20
MayRequest(p) == p.has_more /\ p.page <= page_limit

\* the list is served from the cache up to the second of its expiry
CacheValid_Inclusive(cache, now) ==
    cache.filled /\ now <= cache.last_fetch + expiry_minutes * 60

\* _technicians_cache["data"] is not None and now < cache_expiry
CacheValid(cache, now) == cache.filled /\ now < cache.last_fetch + expiry_minutes * 60

Running == pager.ended = "no"

\* get_all_technicians up to its first await: the cached list, or page 1
technicians_start ==
    /\ ~Running
    /\ pager' = IF CacheValid(_technicians_cache, time)
                THEN [loop |-> "technicians", page |-> 1, has_more |-> TRUE, requests |-> 0,
                      all |-> _technicians_cache.data, now |-> time, ended |-> "cached",
                      last |-> NoAnswer]
                ELSE [loop |-> "technicians", page |-> 1, has_more |-> TRUE, requests |-> 0,
                      all |-> <<>>, now |-> time, ended |-> "no", last |-> NoAnswer]
    /\ UNCHANGED <<drive, resp, backflow, fillVars, time, _st_client, inflight, servicetitan, _customers_cache>>

\* get_technician_jobs up to its first await
jobs_start ==
    /\ ~Running
    /\ pager' = [loop |-> "jobs", page |-> 1, has_more |-> TRUE, requests |-> 0,
                 all |-> <<>>, now |-> time, ended |-> "no", last |-> NoAnswer]
    /\ UNCHANGED <<drive, resp, backflow, fillVars, time, _st_client, inflight, servicetitan, _customers_cache>>

\* has_more = bool(response.get("hasMore")) and len(techs) == page_size, and
\* has_more = len(jobs) == page_size and data.get("hasMore") is not False
HasMore(loop, answer) ==
    /\ answer.len = PageSize(loop)
    /\ IF loop = "technicians" THEN Truthy(answer.hasMore)
       ELSE answer.hasMore # PyBool(FALSE)

\* the loop after a page: the next request, or its end
Turned(p) == [p EXCEPT !.ended = IF MayRequest(p) THEN "no" ELSE "done"]

AfterPage(p, answer) ==
    Turned([p EXCEPT !.all = Append(@, answer.len),
                     !.last = answer,
                     !.has_more = HasMore(p.loop, answer),
                     !.page = @ + 1,
                     !.requests = @ + 1])

\* the cache once get_all_technicians has left its loop
CacheAfter(p) ==
    IF p.loop = "technicians" /\ p.ended = "done"
    THEN [filled |-> TRUE, data |-> p.all, last_fetch |-> p.now]
    ELSE _technicians_cache

\* one awaited api_call of a loop and what follows it up to the next await
page_request(answer) ==
    /\ Running
    /\ MayRequest(pager)
    /\ answer \in PageAnswers(pager.loop)
    /\ IF answer.ok
       THEN /\ pager' = AfterPage(pager, answer)
            /\ _technicians_cache' = CacheAfter(AfterPage(pager, answer))
       ELSE /\ pager' = [pager EXCEPT !.requests = @ + 1, !.ended = "raised"]
            /\ UNCHANGED _technicians_cache
    /\ UNCHANGED <<call, threads, store, stdout, drive, resp, backflow, time, _st_client, inflight, servicetitan, _customers_cache>>

InitPages ==
    /\ call = [src |-> NoBytes, objects |-> <<>>, state |-> "idle", res |-> NoResult]
    /\ drive = [f \in FileIds |-> NoFile]
    /\ resp = NoResp
    /\ threads = <<>>
    /\ store = <<>>
    /\ stdout = <<>>
    /\ backflow = NoRecords
    /\ _technicians_cache = NoCache
    /\ OthersIdle

NextPages ==
    \/ \E later \in PageInstants : Tick(later)
    \/ technicians_start
    \/ jobs_start
    \/ \E answer \in PageAnswers("technicians") \cup PageAnswers("jobs") : page_request(answer)

SpecPages == InitPages /\ [][NextPages]_vars

-----------------------------------------------------------------------------
(* routers/backflow.py: the devices, kept in memory and as notes of the     *)
(* customer in ServiceTitan.  The text of a note is a sequence of pieces as *)
(* any other str; a label such as "Device Type" and "N/A" are one piece.    *)

MaxDevices == 1

MaxNotes == 1

\* the jobs ServiceTitan knows: two locations of customer 7 and a job that
\* names no customer
JobData ==
    [j1 |-> [customerId |-> PyInt(7), locationId |-> PyInt(3)],
     j2 |-> [customerId |-> PyInt(7), locationId |-> PyInt(4)],
     j3 |-> [customerId |-> None, locationId |-> PyInt(3)]]

\* the lines of a note that hold a value of the device as it is
NoteRows ==
    <<<<"Device Type", "typeMain">>, <<"Manufacturer", "manufacturerMain">>,
      <<"Model", "modelMain">>, <<"Serial", "serialMain">>,
      <<"Size", "sizeMain">>, <<"Location", "bpaLocation">>,
      <<"Serves", "bpaServes">>>>

\* the mapping of _parse_device_note
NoteKeys == NoteRows \o <<<<"LocationID", "locationId">>, <<"Created", "createdAt">>>>

NoteLine(label, chars) == <<label, ":", " ">> \o chars \o <<"\n">>

\* f"{device.get(key) or default}"
Shown(device, key, default) == StrOf(Or(DictGet(device, key, None), PyStr(default)))

RECURSIVE NoteLines(_, _)
NoteLines(device, rows) ==
    IF rows = <<>> THEN <<>>
    ELSE NoteLine(Head(rows)[1], Shown(device, Head(rows)[2], <<"N/A">>))
         \o NoteLines(device, Tail(rows))

Gps(device) ==
    IF Truthy(DictGet(device, "geoLatitude", None))
       /\ Truthy(DictGet(device, "geoLongitude", None))
    THEN StrOf(device.geoLatitude) \o <<",", " ">> \o StrOf(device.geoLongitude)
    ELSE <<"N/A">>

_format_device_note(device) ==
    <<"[BACKFLOW_DEVICE_">> \o StrOf(device.id) \o <<"]", "\n">>
    \o NoteLines(device, NoteRows)
    \o NoteLine("GPS", Gps(device))
    \o NoteLine("LocationID", Shown(device, "locationId", <<"N/A">>))
    \o NoteLine("Created", Shown(device, "createdAt", <<>>))
    \o <<"[/BACKFLOW_DEVICE]">>

\* the index of the first piece of chars that is piece, 0 when none
FirstAt(chars, piece) ==
    IF \E i \in DOMAIN chars : chars[i] = piece
    THEN CHOOSE i \in DOMAIN chars :
            chars[i] = piece /\ \A j \in 1..(i - 1) : chars[j] # piece
    ELSE 0

After(chars, i) == SubSeq(chars, i + 1, Len(chars))

\* re.search(r"\[BACKFLOW_DEVICE_(.*?)\]", text): the pieces up to the first
\* "]" of the line of the marker
IdClosed(rest) ==
    FirstAt(rest, "]") # 0
    /\ (FirstAt(rest, "\n") = 0 \/ FirstAt(rest, "]") < FirstAt(rest, "\n"))

IdMatch(text) ==
    IF FirstAt(text, "[BACKFLOW_DEVICE_") # 0
       /\ IdClosed(After(text, FirstAt(text, "[BACKFLOW_DEVICE_")))
    THEN [found |-> TRUE,
          id |-> SubSeq(After(text, FirstAt(text, "[BACKFLOW_DEVICE_")), 1,
                        FirstAt(After(text, FirstAt(text, "[BACKFLOW_DEVICE_")), "]") - 1)]
    ELSE [found |-> FALSE, id |-> <<>>]

\* value.split(","), float() of the two parts
GpsParts(value, comma) ==
    [lat |-> FloatOfStr(Strip(SubSeq(value, 1, comma - 1))),
     long |-> FloatOfStr(Strip(After(value, comma)))]

WithGps(device, value, parts) ==
    IF FirstAt(After(value, FirstAt(value, ",")), ",") = 0 /\ parts.lat.ok /\ parts.long.ok
    THEN MergeDicts(device, [geoLatitude |-> PyInt(parts.lat.val),
                             geoLongitude |-> PyInt(parts.long.val)])
    ELSE IF FirstAt(After(value, FirstAt(value, ",")), ",") = 0 /\ parts.lat.ok
    THEN MergeDicts(device, [geoLatitude |-> PyInt(parts.lat.val)])
    ELSE device

\* one line "key: value" of the note
KeyValue(device, key, value) ==
    IF value = <<>> \/ value = <<"N/A">> THEN device
    ELSE IF Len(key) = 1 /\ FirstAt([i \in DOMAIN NoteKeys |-> NoteKeys[i][1]], key[1]) # 0
    THEN MergeDicts(device,
            NoteKeys[FirstAt([i \in DOMAIN NoteKeys |-> NoteKeys[i][1]], key[1])][2]
               :> PyStr(value))
    ELSE IF key = <<"GPS">> /\ FirstAt(value, ",") # 0
    THEN WithGps(device, value, GpsParts(value, FirstAt(value, ",")))
    ELSE device

ParsedLine(device, line) ==
    IF FirstAt(line, ":") = 0 THEN device
    ELSE KeyValue(device, Strip(SubSeq(line, 1, FirstAt(line, ":") - 1)),
                  Strip(After(line, FirstAt(line, ":"))))

RECURSIVE ParsedLines(_, _)
ParsedLines(device, lines) ==
    IF lines = <<>> THEN device
    ELSE ParsedLines(ParsedLine(device, Head(lines)), Tail(lines))

\* [found, device]: found is FALSE where the code returns None
Parsed(text, match) ==
    [found |-> match.found,
     device |-> IF match.found THEN ParsedLines([id |-> PyStr(match.id)], Split(text))
                ELSE <<>>]

_parse_device_note(text) == Parsed(text, IdMatch(text))

\* the bodies a client sends to create_device, and to update_device
NewDeviceBodies ==
    {[typeMain |-> Word("RPZ"), serialMain |-> Word("S1"), sizeMain |-> PyInt(2),
      geoLatitude |-> PyInt(30), geoLongitude |-> PyInt(97)],
     [typeMain |-> Word("DC"), modelMain |-> Word("N/A"),
      bpaLocation |-> PyStr(<<"roof", " ">>), bpaServes |-> PyStr(<<>>)]}

DeviceUpdates == {[serialMain |-> Word("S9")]}

\* the device and test dicts a client sends to save_test next to the
\* device handlers: a device not yet saved or the first one saved, a test
\* with or without the deviceId of the record it was read from
KnownDevices == {<<>>, [id |-> IdOf("device-", 1)]}

KnownTests == {<<>>, [deviceId |-> IdOf("device-", 1)]}

DeviceIds == {IdOf("device-", 1), IdOf("device-", 2)}

\* what ServiceTitan does with the requests of a handler
Remotes == {"ok", "job fails", "notes fail"}

\* the process stops and is started again: the module is loaded anew, the
\* notes stay
restart ==
    /\ backflow # NoRecords
    /\ backflow' = NoRecords
    /\ resp' = NoResp
    /\ UNCHANGED <<call, drive, threads, store, stdout, _technicians_cache, others>>

HasId(devices, id) == \E i \in DOMAIN devices : devices[i].id = id

\* str(device.get("locationId") or "")
LocationOf(dict) == Shown(dict, "locationId", <<>>)

\* the body of the loop of get_devices for one note: acc is [loaded, devices]
Kept_note(acc, device, location_id) ==
    IF (LocationOf(device) # <<>> /\ location_id # <<>> /\ LocationOf(device) = location_id)
       \/ LocationOf(device) = <<>>
    THEN [loaded |-> Append(acc.loaded, device),
          devices |-> IF HasId(acc.devices, device.id) THEN acc.devices
                      ELSE Append(acc.devices, device)]
    ELSE acc

NoteSeen(acc, text, parsed, job_id, location_id) ==
    IF FirstAt(text, "[BACKFLOW_DEVICE_") = 0 \/ ~parsed.found THEN acc
    ELSE Kept_note(acc, MergeDicts(parsed.device, [jobId |-> PyStr(<<job_id>>)]),
                   location_id)

RECURSIVE Loaded(_, _, _, _)
Loaded(acc, notes, job_id, location_id) ==
    IF notes = <<>> THEN acc
    ELSE Loaded(NoteSeen(acc, Head(notes), _parse_device_note(Head(notes)),
                         job_id, location_id),
                Tail(notes), job_id, location_id)

DevicesAnswer(handler, status, data, devices, request) ==
    /\ resp' = Reply(handler, status, data, NoDoc, NoDoc, request)
    /\ backflow' = [backflow EXCEPT !.devices = devices]
    /\ UNCHANGED <<call, drive, threads, store, stdout, _technicians_cache,
                   time, _st_client, inflight, servicetitan, pager, _customers_cache>>

\* what get_devices answers and keeps, the list in memory being devices:
\* [loaded, devices]
Listing(devices, job_id, remote) ==
    IF remote # "ok"
    THEN [loaded |-> SelectSeq(devices,
                        LAMBDA d : DictGet(d, "jobId", None) = PyStr(<<job_id>>)),
          devices |-> devices]
    ELSE IF ~Truthy(JobData[job_id].customerId)
    THEN [loaded |-> <<>>, devices |-> devices]
    ELSE Loaded([loaded |-> <<>>, devices |-> devices], servicetitan.notes,
                job_id, LocationOf(JobData[job_id]))

Listed(listing, request) ==
    DevicesAnswer("get_devices", 200, listing.loaded, listing.devices, request)

\* GET /api/job/{job_id}/backflow-devices
get_devices(job_id, remote) ==
    Listed(Listing(backflow.devices, job_id, remote),
           [job_id |-> job_id, remote |-> remote])

NewDevice(job_id, body, n) ==
    MergeDicts(MergeDicts([id |-> IdOf("device-", n), jobId |-> PyStr(<<job_id>>),
                           locationId |-> JobData[job_id].locationId], body),
               [createdAt |-> Now])

Created(new_device, posted, request) ==
    /\ backflow' = [backflow EXCEPT !.devices = Append(@, new_device),
                                    !.device_counter = @ + 1]
    /\ servicetitan' = [servicetitan EXCEPT
                          !.notes = IF posted
                                    THEN Append(@, _format_device_note(new_device))
                                    ELSE @]
    /\ resp' = Reply("create_device", 200, new_device, NoDoc, NoDoc, request)
    /\ UNCHANGED <<call, drive, threads, store, stdout, _technicians_cache,
                   time, _st_client, inflight, pager, _customers_cache>>

\* POST /api/job/{job_id}/backflow-devices
create_device(job_id, body, remote) ==
    /\ backflow.device_counter <= MaxDevices
    /\ (Truthy(JobData[job_id].customerId) /\ remote = "ok")
          => Len(servicetitan.notes) < MaxNotes
    /\ IF remote = "job fails"
       THEN /\ resp' = Reply("create_device", 500, <<>>, NoDoc, NoDoc,
                             [job_id |-> job_id, body |-> body, remote |-> remote])
            /\ UNCHANGED <<call, drive, threads, store, stdout, backflow,
                           _technicians_cache, others>>
       ELSE Created(NewDevice(job_id, body, backflow.device_counter),
                    Truthy(JobData[job_id].customerId) /\ remote = "ok",
                    [job_id |-> job_id, body |-> body, remote |-> remote])

Updated(idx, body) == MergeDicts(MergeDicts(backflow.devices[idx], body), [updatedAt |-> Now])

\* PUT /api/backflow-devices/{device_id}
update_device(device_id, body) ==
    IF IndexOf(backflow.devices, "id", device_id) = 0
    THEN DevicesAnswer("update_device", 404, <<>>, backflow.devices,
                       [device_id |-> device_id, body |-> body])
    ELSE DevicesAnswer("update_device", 200,
                       Updated(IndexOf(backflow.devices, "id", device_id), body),
                       [backflow.devices EXCEPT
                          ![IndexOf(backflow.devices, "id", device_id)] =
                             Updated(IndexOf(backflow.devices, "id", device_id), body)],
                       [device_id |-> device_id, body |-> body])

InitDevices == InitBackflow

NextDevices ==
    \/ \E job_id \in DOMAIN JobData, remote \in Remotes \ {"notes fail"} :
          get_devices(job_id, remote)
    \/ \E job_id \in DOMAIN JobData, body \in NewDeviceBodies, remote \in Remotes :
          create_device(job_id, body, remote)
    \/ \E device_id \in DeviceIds, body \in DeviceUpdates : update_device(device_id, body)
    \/ \E device \in KnownDevices, test \in KnownTests : save_test(device, test)
    \/ restart

SpecDevices == InitDevices /\ [][NextDevices]_vars

-----------------------------------------------------------------------------
(* routers/backflow.py: the photos.  delete_photo awaits the remote delete  *)
(* between finding the index of the record and popping it, so a delete is   *)
(* two steps and other requests run in between.                             *)

MaxPhotos == 3

\* the id ServiceTitan gives the attachment of the n-th photo
AttachmentId(n) == PyInt(100 + n)

\* what ServiceTitan does with an upload: it stores the file, answers with
\* a status that is no success, or the request raises
UploadOutcomes == {"ok", "rejected", "raises"}

PhotoIds == {IdOf("photo-", n) : n \in 1..MaxPhotos}

PhotoData(n, job_id, uploaded, attachment) ==
    [id |-> IdOf("photo-", n), jobId |-> PyStr(<<job_id>>),
     uploadedToServiceTitan |-> uploaded, serviceTitanAttachmentId |-> attachment]

PhotoAnswer(handler, status, data, photos, counter, attachments, request) ==
    /\ resp' = Reply(handler, status, data, NoDoc, NoDoc, request)
    /\ backflow' = [backflow EXCEPT !.photos = photos, !.photo_counter = counter]
    /\ servicetitan' = [servicetitan EXCEPT !.attachments = attachments]

\* POST /api/backflow-photos/upload
upload_photo(job_id, outcome) ==
    /\ backflow.photo_counter <= MaxPhotos
    /\ IF outcome = "ok"
       THEN PhotoAnswer("upload_photo", 200,
               PhotoData(backflow.photo_counter, job_id, TRUE,
                         AttachmentId(backflow.photo_counter)),
               Append(backflow.photos,
                      PhotoData(backflow.photo_counter, job_id, TRUE,
                                AttachmentId(backflow.photo_counter))),
               backflow.photo_counter + 1,
               Append(servicetitan.attachments, AttachmentId(backflow.photo_counter)),
               [job_id |-> job_id, outcome |-> outcome])
       ELSE PhotoAnswer("upload_photo", 500, <<>>, backflow.photos,
               backflow.photo_counter + 1, servicetitan.attachments,
               [job_id |-> job_id, outcome |-> outcome])
    /\ UNCHANGED <<call, drive, threads, store, stdout, _technicians_cache,
                   time, _st_client, inflight, pager, _customers_cache>>

\* DELETE /api/backflow-photos/{photo_id}, up to the await of the remote
\* delete: idx and photo are locals of the request
DeleteFound(photo_id, idx) ==
    IF idx = 0
    THEN /\ PhotoAnswer("delete_photo", 404, <<>>, backflow.photos,
                        backflow.photo_counter, servicetitan.attachments,
                        [photo_id |-> photo_id, idx |-> idx])
         /\ UNCHANGED inflight
    ELSE /\ inflight' = Append(inflight, [handler |-> "delete_photo",
                                          photo_id |-> photo_id, idx |-> idx,
                                          photo |-> backflow.photos[idx]])
         /\ UNCHANGED <<resp, backflow, servicetitan>>

delete_photo(photo_id) ==
    /\ Len(inflight) < MaxPhotos
    /\ DeleteFound(photo_id, IndexOf(backflow.photos, "id", photo_id))
    /\ UNCHANGED <<call, drive, threads, store, stdout, _technicians_cache,
                   time, _st_client, pager, _customers_cache>>

\* _photos.pop(idx) with the idx found before the await: IndexError when the
\* list has become shorter
Popped(request, attachments) ==
    IF request.idx \in DOMAIN backflow.photos
    THEN PhotoAnswer("delete_photo", 200, <<>>, Without(backflow.photos, request.idx),
                     backflow.photo_counter, attachments,
                     [photo_id |-> request.photo_id, idx |-> request.idx])
    ELSE PhotoAnswer("delete_photo", 500, <<>>, backflow.photos,
                     backflow.photo_counter, attachments,
                     [photo_id |-> request.photo_id, idx |-> request.idx])

\* the remote delete of request k is answered, or raises (the except of
\* delete_photo only prints), and the handler runs to its end
delete_response(k, deleted) ==
    /\ inflight[k].handler = "delete_photo"
    /\ inflight' = Without(inflight, k)
    /\ Popped(inflight[k],
              IF deleted
              THEN SelectSeq(servicetitan.attachments,
                             LAMBDA a : a # inflight[k].photo.serviceTitanAttachmentId)
              ELSE servicetitan.attachments)
    /\ UNCHANGED <<call, drive, threads, store, stdout, _technicians_cache,
                   time, _st_client, pager, _customers_cache>>

InitPhotos == InitBackflow

NextPhotos ==
    \/ \E job_id \in {"j1"}, outcome \in UploadOutcomes : upload_photo(job_id, outcome)
    \/ \E photo_id \in PhotoIds : delete_photo(photo_id)
    \/ \E k \in DOMAIN inflight, deleted \in BOOLEAN : delete_response(k, deleted)

SpecPhotos == InitPhotos /\ [][NextPhotos]_vars

-----------------------------------------------------------------------------
(* routers/jobs.py: _get_customers_data and the customers cache.  A customer *)
(* dict is kept with the time of the call whose export held it.              *)

customers_expiry_minutes == 60

\* the seconds of the clock at which calls are made: time.time() is never 0
CustomerInstants == {100, 3000, 3699, 3700, 5000}

Customers == {"A", "B"}

\* what /export/customers answers with: any of the customers, or api_call raises
Exports == [ok : {TRUE}, ids : SUBSET Customers] \cup [ok : {FALSE}, ids : {{}}]

\* cache_valid
CustomersValid(cache, now) ==
    cache.last_fetch # 0 /\ now < cache.last_fetch + customers_expiry_minutes * 60

\* the ids of the request served from the cache
CachedIds(cache, customer_ids, now) ==
    IF CustomersValid(cache, now) THEN customer_ids \cap DOMAIN cache.data ELSE {}

\* _customers_cache["data"] after the loop over the export
Exported(data, export, now) ==
    [cid \in DOMAIN data \cup export.ids |->
        IF cid \in export.ids THEN [id |-> cid, fetched |-> now] ELSE data[cid]]

\* customers_map: the cached ones, then those of the export that were asked for
CustomersMap(cache, cached, uncached_ids, export, now) ==
    [cid \in cached \cup (IF uncached_ids # {} THEN uncached_ids \cap export.ids ELSE {}) |->
        IF cid \in cached THEN cache.data[cid] ELSE [id |-> cid, fetched |-> now]]

Fetched(cache, customer_ids, cached, export, now) ==
    /\ _customers_cache' =
          IF customer_ids \ cached # {} /\ export.ok
          THEN [data |-> Exported(cache.data, export, now), last_fetch |-> now]
          ELSE cache
    /\ resp' = [handler |-> "_get_customers_data", customer_ids |-> customer_ids,
                now |-> now, seen |-> cache,
                called |-> customer_ids \ cached # {},
                export |-> export,
                customers_map |-> CustomersMap(cache, cached, customer_ids \ cached,
                                               export, now)]

_get_customers_data(customer_ids, export) ==
    /\ time > 0
    /\ Fetched(_customers_cache, customer_ids,
               CachedIds(_customers_cache, customer_ids, time), export, time)
    /\ UNCHANGED <<call, drive, threads, store, stdout, backflow, _technicians_cache,
                   time, _st_client, inflight, servicetitan, pager>>

InitCustomers == InitBackflow

NextCustomers ==
    \/ \E later \in CustomerInstants : Tick(later)
    \/ \E customer_ids \in SUBSET Customers \ {{}}, export \in Exports :
          _get_customers_data(customer_ids, export)

SpecCustomers == InitCustomers /\ [][NextCustomers]_vars

-----------------------------------------------------------------------------
(* routers/drafts.py: complete_draft, the move of a draft to the completed  *)
(* folder of its job, its download and its upload to ServiceTitan            *)

\* the step of complete_draft that fails: the move (promote_to_completed
\* answers success False), the download, the upload that ServiceTitan
\* rejects, or the upload request that raises
CompleteFaults == {"none", "move", "download", "rejected", "raises"}

\* GoogleDriveService.promote_to_completed: the file leaves the draft folder
\* of the job for its completed folder
promote_to_completed(file, fault) ==
    IF fault = "move" \/ file = NoFile
    THEN [success |-> FALSE, file |-> file]
    ELSE [success |-> TRUE, file |-> [file EXCEPT !.folder = "completed"]]

\* the steps complete_draft runs, the last one being the one that fails
StepsRun(promoted, fault) ==
    IF ~promoted.success THEN <<"move">>
    ELSE IF fault = "download" THEN <<"move", "download">>
    ELSE <<"move", "download", "metadata", "upload">>

Completed(f, promoted, fault, steps) ==
    /\ drive' = [drive EXCEPT ![f] = promoted.file]
    /\ servicetitan' = [servicetitan EXCEPT
                          !.attachments =
                             IF promoted.success /\ fault = "none"
                             THEN Append(@, [file |-> f, data |-> promoted.file.data])
                             ELSE @]
    /\ resp' = [handler |-> "complete_draft",
                status |-> IF promoted.success /\ fault = "none" THEN 200 ELSE 500,
                file |-> f, steps |-> steps,
                detail |-> IF promoted.success /\ fault = "none" THEN "ok"
                           ELSE IF promoted.success /\ fault = "raises" THEN "unhandled"
                           ELSE "http"]

\* POST /api/drafts/{file_id}/complete, for a draft or a file Drive does not
\* have
complete_draft(f, hasJobId, fault) ==
    /\ drive[f].folder \in {"none", "draft"}
    /\ IF ~hasJobId
       THEN /\ resp' = [handler |-> "complete_draft", status |-> 400, file |-> f,
                        steps |-> <<>>, detail |-> "http"]
            /\ UNCHANGED <<drive, servicetitan>>
       ELSE Completed(f, promote_to_completed(drive[f], fault), fault,
                      StepsRun(promote_to_completed(drive[f], fault), fault))
    /\ UNCHANGED <<call, threads, store, stdout, backflow, _technicians_cache,
                   time, _st_client, inflight, pager, _customers_cache>>

NextComplete ==
    \/ \E f \in FileIds, hasFields, stOk \in BOOLEAN, fault \in DriveFaults,
          src \in Sources, objects \in DraftLists :
          save_draft(f, hasFields, src, objects, stOk, fault)
    \/ \E f \in FileIds, hasJobId \in BOOLEAN, fault \in CompleteFaults :
          complete_draft(f, hasJobId, fault)

SpecComplete == InitDraft /\ [][NextComplete]_vars

-----------------------------------------------------------------------------
(* Vocabulary of the properties of a finished call *)

Returned == call.state = "returned"

InPages == call.src.pages

OutPages == call.res.out.pages

Objs == call.objects

\* the page values Python compares equal to the 1-based index p
NamesPage(o, p) ==
    \/ o.page = Absent /\ p = 1
    \/ o.page = PyInt(p)
    \/ o.page = PyBool(TRUE) /\ p = 1

HasType(o, names) == \E t \in names : o.type = PyStr(<<t>>)

\* the marks element i left on page p of the output, in drawing order
MarksOn(i, p) == SelectSeq(OutPages[p].content, LAMBDA m : m.op # "orig" /\ m.el = i)

Drew(i) == \E p \in DOMAIN OutPages : MarksOn(i, p) # <<>>

Logged(i) == \E k \in DOMAIN call.res.log : call.res.log[k].el = i

\* a value float() accepts after the "or default"
Numeric(v) ==
    \/ Tag(v) \in {"absent", "none", "int", "bool"}
    \/ Tag(v) = "str" /\ \A k \in DOMAIN v[2] : v[2][k] \in Digits

\* every field but type, page and content is one the renderer can use
WellFormed(o) ==
    /\ \A f \in {"x", "y", "width", "height", "fontSize"} : Numeric(o[f])
    /\ \/ Tag(o.color) \in {"absent", "none", "str"}
       \/ o.color = PyInt(0)

\* C1: for every valid source and every element list, the empty one included,
\* generate_filled_pdf returns a document with the pages of the source, as
\* many and in the same order
C1_SamePages ==
    call.state # "called" /\ call.src.parses =>
        /\ Returned
        /\ Len(OutPages) = Len(InPages)
        /\ \A k \in DOMAIN InPages :
              /\ OutPages[k].id = InPages[k].id
              /\ OutPages[k].height = InPages[k].height
              /\ OutPages[k].width = InPages[k].width

C1_Witness ==
    /\ Returned
    /\ Len(InPages) = 2
    /\ Len(OutPages) = 2
    /\ call.res.merged = <<2>>

\* C2: the overlay of page p is built from exactly the elements whose page is
\* p, no mark of an element lands on a page it does not name, and a page no
\* element names gets no overlay and keeps its content
C2_PageIsolation ==
    Returned =>
        /\ \A p \in DOMAIN OutPages : \A i \in DOMAIN Objs :
              MarksOn(i, p) # <<>> => NamesPage(Objs[i], p)
        /\ \A b \in DOMAIN call.res.built :
              LET page_num == call.res.built[b].page_num
                  els == call.res.built[b].els
              IN  /\ els # <<>>
                  /\ \A k \in DOMAIN els : NamesPage(Objs[els[k]], page_num)
                  /\ \A i \in DOMAIN Objs :
                        NamesPage(Objs[i], page_num) => \E k \in DOMAIN els : els[k] = i
        /\ \A p \in DOMAIN OutPages :
              (\A i \in DOMAIN Objs : ~NamesPage(Objs[i], p)) =>
                  /\ \A b \in DOMAIN call.res.built : call.res.built[b].page_num # p
                  /\ \A k \in DOMAIN call.res.merged : call.res.merged[k] # p
                  /\ OutPages[p] = InPages[p]

C2_Witness ==
    /\ Returned
    /\ Len(OutPages) = 2
    /\ Len(Objs) = 2
    /\ MarksOn(1, 2) # <<>>
    /\ MarksOn(1, 1) = <<>>
    /\ MarksOn(2, 1) # <<>>
    /\ MarksOn(2, 2) = <<>>

\* C3: every element is rendered on at most one page, and an element whose
\* page is not the index of a page of the source is ignored: no mark, no
\* error line, no overlay, no extra page, and the call still returns
C3_UnknownPageIgnored ==
    call.state # "called" /\ call.src.parses =>
        /\ Returned
        /\ \A i \in DOMAIN Objs :
              Cardinality({p \in DOMAIN OutPages : MarksOn(i, p) # <<>>}) <= 1
        /\ \A i \in DOMAIN Objs :
              (\A p \in DOMAIN InPages : ~NamesPage(Objs[i], p)) =>
                  /\ ~Drew(i)
                  /\ ~Logged(i)
                  /\ \A b \in DOMAIN call.res.built :
                        \A k \in DOMAIN call.res.built[b].els :
                            call.res.built[b].els[k] # i
        /\ Len(OutPages) = Len(InPages)

C3_Witness ==
    /\ Returned
    /\ Len(InPages) = 1
    /\ Len(Objs) = 2
    /\ Objs[1].page = PyInt(2)
    /\ HasType(Objs[1], {"text"})
    /\ ~Drew(1)
    /\ Drew(2)

\* the element has a value the renderer cannot use
Bad(o) ==
    \/ ~WellFormed(o)
    \/ /\ HasType(o, {"signature"})
       /\ Tag(o.content) = "datauri"
       /\ ~(o.content[2] \in {"png", "jpeg"} /\ o.content[3][1] = "img")

\* the marks element i leaves when the request holds that element alone
AloneOn(i, p) ==
    SelectSeq(generate_filled_pdf(call.src, <<Objs[i]>>).out.pages[p].content,
              LAMBDA m : m.op # "orig" /\ m.el = i)

\* C4: an element whose rendering fails is caught (one line printed) and
\* skipped, every other element leaves the marks it leaves when rendered
\* alone, and generate_filled_pdf still returns a document
C4_ErrorIsolation ==
    call.state # "called" /\ call.src.parses =>
        /\ Returned
        /\ \A i \in DOMAIN Objs :
              /\ Logged(i) => ~Drew(i)
              /\ Bad(Objs[i]) /\ (\E p \in DOMAIN InPages : NamesPage(Objs[i], p))
                    => Logged(i) /\ ~Drew(i)
              /\ \A p \in DOMAIN OutPages : MarksOn(i, p) = AloneOn(i, p)

C4_Witness ==
    /\ Returned
    /\ Len(OutPages) = 1
    /\ Len(Objs) = 2
    /\ NamesPage(Objs[1], 1)
    /\ Objs[1].y = PyStr(<<"abc">>)
    /\ Logged(1)
    /\ ~Drew(1)
    /\ MarksOn(2, 1) # <<>>

\* the element draws at most one line or image
SingleMark(o) ==
    \/ HasType(o, {"checkbox", "signature"})
    \/ /\ HasType(o, {"text", "date", "timestamp"})
       /\ Tag(o.content) = "str"
       /\ \A k \in DOMAIN o.content[2] : o.content[2][k] # "\n"

\* C5: every text, date, timestamp, checkbox or signature element is drawn at
\* pdf_y = page_height - y - height + 1, y and height being the values the
\* element declares and page_height the height of its page
C5_DeclaredConversion ==
    Returned =>
        \A p \in DOMAIN OutPages : \A i \in DOMAIN Objs :
            /\ SingleMark(Objs[i])
            /\ Tag(Objs[i].y) = "int"
            /\ Tag(Objs[i].height) = "int"
            => \A k \in DOMAIN MarksOn(i, p) :
                  MarksOn(i, p)[k].y
                    = OutPages[p].height - Objs[i].y[2] - Objs[i].height[2] + 1

\* C6: on source bytes that do not parse the call raises, with no page
\* examined, no overlay built and nothing printed, and the error reaches the
\* caller
C6_InvalidSourceFailsFast ==
    call.state # "called" /\ ~call.src.parses =>
        /\ call.state = "raised"
        /\ call.res.raised
        /\ call.res.examined = <<>>
        /\ call.res.built = <<>>
        /\ call.res.merged = <<>>
        /\ call.res.log = <<>>

C6_Witness ==
    /\ call.state = "raised"
    /\ ~call.src.magic
    /\ ~call.src.empty
    /\ Len(Objs) = 2

CheckedValues == {PyBool(TRUE), PyStr(<<"true">>), PyInt(1)}

\* C8: a checkbox draws exactly one "X" when its content is true, "true" or
\* 1, and draws nothing and raises no error for every other content
C8_CheckboxTruthiness ==
    Returned =>
        \A p \in DOMAIN OutPages : \A i \in DOMAIN Objs :
            /\ HasType(Objs[i], {"checkbox"})
            /\ NamesPage(Objs[i], p)
            /\ WellFormed(Objs[i])
            => /\ ~Logged(i)
               /\ IF Objs[i].content \in CheckedValues
                  THEN /\ Len(MarksOn(i, p)) = 1
                       /\ MarksOn(i, p)[1].op = "drawString"
                       /\ MarksOn(i, p)[1].text = <<"X">>
                  ELSE MarksOn(i, p) = <<>>

C8_Witness ==
    /\ Returned
    /\ Len(OutPages) = 2
    /\ Len(Objs) = 2
    /\ HasType(Objs[1], {"checkbox"})
    /\ Objs[1].content = PyStr(<<"yes">>)
    /\ NamesPage(Objs[1], 1)
    /\ ~Drew(1)
    /\ HasType(Objs[2], {"checkbox"})
    /\ Objs[2].content = PyBool(TRUE)
    /\ Len(MarksOn(2, 2)) = 1

\* content that is missing, empty or whitespace only
BlankText(v) ==
    \/ v = Absent
    \/ Tag(v) = "str" /\ \A k \in DOMAIN v[2] : v[2][k] \in Whitespace

\* C9: a text, date or timestamp element whose content is empty or whitespace
\* only draws no mark and raises no error, and the fill succeeds
C9_BlankTextSkipped ==
    call.state # "called" /\ call.src.parses =>
        /\ Returned
        /\ \A i \in DOMAIN Objs :
              HasType(Objs[i], {"text", "date", "timestamp"}) /\ BlankText(Objs[i].content)
                => /\ ~Drew(i)
                   /\ WellFormed(Objs[i]) => ~Logged(i)

C9_Witness ==
    /\ Returned
    /\ Len(OutPages) = 1
    /\ Len(Objs) = 2
    /\ HasType(Objs[1], {"timestamp"})
    /\ Objs[1].content = PyStr(<<"\n", " ", "\n">>)
    /\ NamesPage(Objs[1], 1)
    /\ ~Drew(1)
    /\ ~Logged(1)
    /\ MarksOn(2, 1) # <<>>

\* C10: line i (0-based, blank lines counted) of a text content split on
\* newline is drawn at x and pdf_y - i * fontSize; blank lines are not drawn
\* and do not move the lines after them
C10_MultiLine ==
    Returned =>
        \A p \in DOMAIN OutPages : \A i \in DOMAIN Objs :
            /\ HasType(Objs[i], {"text", "date", "timestamp"})
            /\ NamesPage(Objs[i], p)
            /\ WellFormed(Objs[i])
            /\ Tag(Objs[i].content) = "str"
            => LET lines == Split(Objs[i].content[2])
                   x == Num(Objs[i], "x", 0).val
                   font_size == Num(Objs[i], "fontSize", 11).val
                   pdf_y == OutPages[p].height - Num(Objs[i], "y", 0).val
                              - Num(Objs[i], "height", 20).val + 1
                   drawn == MarksOn(i, p)
                   wanted == {k \in DOMAIN lines : Strip(lines[k]) # <<>>}
               IN  /\ Len(drawn) = Cardinality(wanted)
                   /\ \A k \in wanted :
                         \E d \in DOMAIN drawn :
                             /\ d = Cardinality({j \in wanted : j <= k})
                             /\ drawn[d].x = x
                             /\ drawn[d].y = pdf_y - (k - 1) * font_size
                             /\ drawn[d].text = Strip(lines[k])

C10_Witness ==
    /\ Returned
    /\ Len(OutPages) = 1
    /\ Len(Objs) = 1
    /\ Objs[1].content = PyStr(<<"A", "\n", "\n", "B">>)
    /\ Objs[1].fontSize = PyInt(8)
    /\ Len(MarksOn(1, 1)) = 2
    /\ MarksOn(1, 1)[1].y = 792 - 100 - 20 + 1
    /\ MarksOn(1, 1)[2].y = 792 - 100 - 20 + 1 - 16

IsPrefix(a, b) == Len(a) <= Len(b) /\ SubSeq(b, 1, Len(a)) = a

\* the draft elements that draw on page p: all are well formed and not blank
DrawsOn(o, p) == o \in DraftElements /\ NamesPage(o, p)

\* C7: a fill of an already filled document adds the marks of its elements to
\* every page and keeps all the content the page had, the marks of the
\* earlier fill included: overlays compose and never replace
C7_OverlaysCompose ==
    [][\A f \in FileIds :
          resp'.handler = "update_draft" /\ resp'.status = 200 /\ resp'.file = f
          => LET old == drive[f].data.pages
                 new == drive'[f].data.pages
                 B == resp'.objects
             IN  /\ Len(new) = Len(old)
                 /\ \A p \in DOMAIN old :
                       /\ IsPrefix(old[p].content, new[p].content)
                       /\ \A i \in DOMAIN B :
                             DrawsOn(B[i], p) =>
                                \E k \in (Len(old[p].content) + 1)..Len(new[p].content) :
                                    new[p].content[k].el = B[i].id]_vars

\* a draft saved with element 11 and then updated with element 13 alone
\* carries the page's own content and the marks of both
C7_Witness ==
    /\ resp.handler = "update_draft"
    /\ resp.status = 200
    /\ Len(resp.objects) = 1
    /\ resp.objects[1].id = 13
    /\ drive["f1"].version = 1
    /\ Len(drive["f1"].data.pages) >= 1
    /\ LET content == drive["f1"].data.pages[1].content
       IN  /\ Len(content) = 4
           /\ content[1].op = "orig"
           /\ content[2].el = 11
           /\ content[3].el = 13
           /\ content[4].el = 13

\* the signature declares whole numbers for its position and its box
DeclaresBox(o) ==
    /\ HasType(o, {"signature"})
    /\ Tag(o.x) = "int"
    /\ Tag(o.width) = "int"
    /\ Tag(o.height) = "int"
    /\ Tag(o.content) = "datauri"
    /\ Len(o.content[3]) = 3

\* the image mark m, drawn w1/w2 wide and h1/h2 high, fits the box o declares
\* and the 60pt cap, keeps the iw : ih of the image, and is narrower than the
\* room it has when filling that room would make it higher than the cap
FitsBox(m, o, page_width, iw, ih) ==
    LET room == Min(o.width[2], page_width - o.x[2] - 10)
    IN  /\ m.w[1] <= room * m.w[2]
        /\ m.h[1] <= 60 * m.h[2]
        /\ m.w[1] * m.h[2] * ih = m.h[1] * m.w[2] * iw
        /\ room * ih > 60 * iw => m.w[1] < room * m.w[2]

\* C11: every signature that is drawn is at most min(declared width,
\* page_width - x - 10) wide and at most 60pt high whatever height it
\* declares, keeps the aspect ratio of its image, and takes its height from
\* the cap when scaling to the width would exceed it
C11_ScaleToFit ==
    Returned =>
        \A p \in DOMAIN OutPages : \A i \in DOMAIN Objs :
            DeclaresBox(Objs[i]) =>
                \A k \in DOMAIN MarksOn(i, p) :
                    FitsBox(MarksOn(i, p)[k], Objs[i], OutPages[p].width,
                            Objs[i].content[3][2], Objs[i].content[3][3])

\* C12: a signature is handed to the image code only when its content is a
\* string beginning with "data:image/"; with any other content it draws
\* nothing, raises and prints nothing, and the pages are as many as before
C12_NonImageSignatureSkipped ==
    call.state # "called" /\ call.src.parses =>
        /\ Returned
        /\ Len(OutPages) = Len(InPages)
        /\ \A i \in DOMAIN Objs :
              HasType(Objs[i], {"signature"}) /\ WellFormed(Objs[i]) =>
                  /\ Drew(i) \/ Logged(i) => Tag(Objs[i].content) = "datauri"
                  /\ Tag(Objs[i].content) # "datauri" => ~Drew(i) /\ ~Logged(i)

C12_Witness ==
    /\ Returned
    /\ Len(OutPages) = 1
    /\ Len(Objs) = 2
    /\ HasType(Objs[1], {"signature"})
    /\ Objs[1].content = PyStr(<<"hello">>)
    /\ NamesPage(Objs[1], 1)
    /\ ~Drew(1)
    /\ ~Logged(1)
    /\ HasType(Objs[2], {"signature"})
    /\ Len(MarksOn(2, 1)) = 1

\* the marks the element o leaves on page p when the request holds it alone
MarksOf(o, p) ==
    SelectSeq(generate_filled_pdf(call.src, <<o>>).out.pages[p].content,
              LAMBDA m : m.op # "orig")

\* the colour is a string, not empty, that HexColor rejects
Unparsable(v) == Tag(v) = "str" /\ v[2] # <<>> /\ ~HexColor(WithHash(v[2])).ok

\* a text with something to draw or a checked checkbox, on page p
DrawsText(o, p) ==
    /\ NamesPage(o, p)
    /\ WellFormed(o)
    /\ \/ HasType(o, {"text", "date", "timestamp"}) /\ ~IsBlankContent(o.content)
       \/ HasType(o, {"checkbox"}) /\ o.content \in CheckedValues

BlackStr == PyStr(<<"#", "0", "0", "0", "0", "0", "0">>)

\* C13: a text or checkbox element whose colour string does not parse as a
\* hex colour is still drawn, every mark of it in solid black (the marks it
\* leaves when it declares "#000000"), and no error is raised or printed
C13_BadColorDrawnBlack ==
    Returned =>
        \A p \in DOMAIN OutPages : \A i \in DOMAIN Objs :
            DrawsText(Objs[i], p) /\ Unparsable(Objs[i].color) =>
                /\ MarksOn(i, p) # <<>>
                /\ \A k \in DOMAIN MarksOn(i, p) : MarksOn(i, p)[k].color = black
                /\ MarksOn(i, p) = MarksOf([Objs[i] EXCEPT !.color = BlackStr], p)
                /\ ~Logged(i)

C13_Witness ==
    /\ Returned
    /\ Len(OutPages) = 1
    /\ Len(Objs) = 2
    /\ HasType(Objs[1], {"checkbox"})
    /\ Objs[1].color = PyStr(<<"#", "z", "z", "z">>)
    /\ Len(MarksOn(1, 1)) = 1
    /\ MarksOn(1, 1)[1].color = black
    /\ MarksOn(1, 1)[1].text = <<"X">>
    /\ ~Logged(1)

\* the brand blue #1e3a8a
Blue == <<30, 58, 138>>

BlueStr == PyStr(DefaultColor)

\* no colour is given: the key is missing, None or the empty string
NoColor(v) == v \in {Absent, None, PyStr(<<>>)}

\* C14 as stated: an element whose colour is absent or malformed is drawn in
\* brand blue
C14_AbsentOrMalformedBlue ==
    Returned =>
        \A p \in DOMAIN OutPages : \A i \in DOMAIN Objs :
            DrawsText(Objs[i], p)
              /\ (NoColor(Objs[i].color) \/ Unparsable(Objs[i].color)) =>
                /\ MarksOn(i, p) # <<>>
                /\ \A k \in DOMAIN MarksOn(i, p) : MarksOn(i, p)[k].color = Blue

\* C14, amended: an element whose colour is absent (missing, None or empty)
\* is drawn in brand blue, as when it declares "#1e3a8a"; an element whose
\* colour string does not parse is drawn, but in black and not in blue
C14_AbsentBlueMalformedBlack ==
    Returned =>
        \A p \in DOMAIN OutPages : \A i \in DOMAIN Objs :
            DrawsText(Objs[i], p) =>
                /\ NoColor(Objs[i].color) =>
                      /\ MarksOn(i, p) # <<>>
                      /\ \A k \in DOMAIN MarksOn(i, p) : MarksOn(i, p)[k].color = Blue
                      /\ MarksOn(i, p) = MarksOf([Objs[i] EXCEPT !.color = BlueStr], p)
                /\ Unparsable(Objs[i].color) =>
                      /\ MarksOn(i, p) # <<>>
                      /\ \A k \in DOMAIN MarksOn(i, p) : MarksOn(i, p)[k].color # Blue

C14_Witness ==
    /\ Returned
    /\ Len(OutPages) = 1
    /\ Len(Objs) = 2
    /\ HasType(Objs[1], {"text"})
    /\ Objs[1].color = Absent
    /\ Len(MarksOn(1, 1)) = 1
    /\ MarksOn(1, 1)[1].color = Blue
    /\ Objs[2].color = BlackStr
    /\ Len(MarksOn(2, 1)) = 1
    /\ MarksOn(2, 1)[1].color = black

\* the elements of the lines thread t printed, in order
PrintedBy(t) ==
    LET mine == SelectSeq(stdout, LAMBDA line : line.thread = t)
    IN  [k \in DOMAIN mine |-> mine[k].el]

\* the elements of the lines the call prints when it runs alone
PrintedAlone(th) ==
    LET log == generate_filled_pdf(th.given, th.objects).log
    IN  [k \in DOMAIN log |-> log[k].el]

\* C15: fills share no mutable state: whatever the interleaving, the buffer a
\* fill was given holds what it held at the call, and a fill that ended
\* raised, returned and printed what the same call does when it runs alone
C15_FillsIndependent ==
    \A t \in DOMAIN threads :
        /\ store[threads[t].src] = threads[t].given
        /\ threads[t].pc \in {"returned", "raised"} =>
              /\ (threads[t].pc = "raised")
                    = generate_filled_pdf(threads[t].given, threads[t].objects).raised
              /\ threads[t].out
                    = generate_filled_pdf(threads[t].given, threads[t].objects).out
              /\ PrintedBy(t) = PrintedAlone(threads[t])

\* two fills of the same buffer whose steps interleaved (their lines on
\* stdout alternate) and that returned two different documents
C15_Witness ==
    /\ DOMAIN threads = Threads
    /\ threads["t1"].pc = "returned"
    /\ threads["t2"].pc = "returned"
    /\ threads["t1"].src = threads["t2"].src
    /\ threads["t1"].out # threads["t2"].out
    /\ Len(threads["t1"].out.pages[1].content) > 1
    /\ Len(threads["t2"].out.pages[1].content) > 1
    /\ [k \in DOMAIN stdout |-> stdout[k].thread] = <<"t1", "t2", "t1">>

\* C16 as stated: in save_attachment, save_draft and update_draft, source
\* bytes that are empty or do not start with %PDF are answered with a failure
\* the handler raises, before generate_filled_pdf is called and with nothing
\* sent to the remote store
C16_InvalidSourceRejected ==
    /\ resp.handler \in {"save_attachment", "save_draft", "update_draft"}
    /\ resp.downloaded
    /\ NotPdf(resp.src)
    => /\ resp.status >= 400
       /\ resp.detail = "http"
       /\ ~resp.filled
       /\ resp.sent = NoBytes

\* C17: whenever the named-field fill of a generate_pdf request fails, the
\* request still succeeds: the document comes from the reference renderer and
\* is recorded, so the caller never sees the failure.
C17_FillFailureFallsBack ==
    (resp.handler = "generate_pdf" /\ resp.status # 404 /\ resp.fill.raised)
    => /\ resp.status = 200
       /\ resp.doc.renderer = "reference"
       /\ ~resp.doc.raised
       /\ \E i \in DOMAIN backflow.pdfs : backflow.pdfs[i] = resp.data

\* a finished _fill_tceq_pdf, and what it was called with
TceqFilled == resp.handler = "generate_pdf" /\ resp.fill.renderer = "tceq" /\ ~resp.fill.raised

Blank(v) == v \in {None, PyStr(<<>>)}

Computed == TextValues(FillEnv(resp.request.body, resp.request.device, resp.request.test))

OnSet == CheckValues(resp.request.device, resp.request.test)

\* C19: the check boxes _fill_tceq_pdf sets are exactly those of the on set,
\* each to "/Yes"; every other check box of the form keeps the state of the
\* template, and none is set to off.
C19_OnlyOnSetChecked ==
    TceqFilled
    => /\ DOMAIN resp.fill.checks = OnSet
       /\ \A f \in OnSet : resp.fill.checks[f] = PyStr(<<"/Yes">>)
       /\ \A f \in DOMAIN resp.fill.form \ TextFieldNames :
             /\ f \in OnSet => resp.fill.form[f] = PyStr(<<"/Yes">>)
             /\ f \notin OnSet => resp.fill.form[f] = resp.request.template.form[f]

\* a fill that ticked a box that was off and left alone a ticked box that is
\* not in the on set
C19_Witness ==
    /\ TceqFilled
    /\ "Check Box_2_1" \in OnSet \cap DOMAIN resp.fill.form
    /\ resp.request.template.form["Check Box_2_1"] = PyStr(<<"/Off">>)
    /\ resp.fill.form["Check Box_2_1"] = PyStr(<<"/Yes">>)
    /\ "Check Box_2_4" \notin OnSet
    /\ resp.fill.form["Check Box_2_4"] = PyStr(<<"/Yes">>)
    /\ "Check Box_2" \notin OnSet
    /\ resp.fill.form["Check Box_2"] = PyStr(<<"/Off">>)

\* the technicians of the list whose loginName is the username but for case
LoginsEqual ==
    {i \in DOMAIN resp.technicians :
        /\ "loginName" \in DOMAIN resp.technicians[i]
        /\ Tag(resp.technicians[i].loginName) = "str"
        /\ Lower(resp.technicians[i].loginName[2]) = Lower(resp.request.username[2])}

FirstEqual == CHOOSE i \in LoginsEqual : \A j \in LoginsEqual : i <= j

PhoneMatches ==
    validate_phone_match(DictGet(resp.technicians[FirstEqual], "phoneNumber", None),
                         resp.request.phone)

\* C20: with the list of technicians available, validate_technician answers
\* 404 when no loginName equals the username but for case, whatever the
\* phone; 401 when one does and the phone does not match; and 200 with
\* success and the data of that technician otherwise, whether or not the full
\* profile could be fetched.
C20_DecisionOrder ==
    (resp.handler = "validate_technician" /\ resp.listed)
    => /\ LoginsEqual = {} => resp.status = 404
       /\ (LoginsEqual # {} /\ ~PhoneMatches) => resp.status = 401
       /\ (LoginsEqual # {} /\ PhoneMatches)
            => /\ resp.status = 200
               /\ resp.data.success
               /\ resp.data.technician.id = resp.technicians[FirstEqual].id
               /\ resp.data.technician.username = resp.technicians[FirstEqual].loginName

\* the call that has just returned found a token that had not expired
FoundFresh(r) == Truthy(r.seen._token_cache) /\ r.at < r.seen._token_expiry

ServedFromCache(r) ==
    /\ ~r.contacted
    /\ ~r.raised
    /\ r.token = r.seen._token_cache
    /\ UNCHANGED <<_st_client, servicetitan>>

Refetched(r) ==
    /\ r.contacted
    /\ servicetitan'.issued = servicetitan.issued + 1
    /\ r.token = IdOf("token-", servicetitan'.issued)
    /\ _st_client'._token_cache = r.token
    /\ _st_client'._token_expiry
         = time + (IF r.token_data.expires_in = Absent THEN 900
                   ELSE r.token_data.expires_in[2]) - 300

\* C21: get_access_token returns the cached token, without a request to the
\* auth server, exactly when it finds a token whose recorded expiry (the time
\* of the fetch + expires_in - 300) is still ahead; at or after the expiry it
\* fetches a token, which replaces the cached one with its own expiry.
C21_TokenCache ==
    [][(resp' # resp /\ resp'.handler = "get_access_token")
         => IF FoundFresh(resp') THEN ServedFromCache(resp')
            ELSE resp'.raised \/ Refetched(resp')]_vars

\* a second call served the token of the first from the cache, one second
\* before its expiry
C21_Witness ==
    /\ resp.handler = "get_access_token"
    /\ ~resp.contacted
    /\ resp.token = IdOf("token-", 1)
    /\ resp.at = 599
    /\ resp.seen._token_expiry = 600
    /\ servicetitan.issued = 1

\* C23: get_all_technicians answers from the cache, with no request, exactly
\* when a list is cached and less than 30 minutes have passed since the fetch
\* that stored it; otherwise it fetches, the cache stays as it was while the
\* pages arrive and when a request fails, and only the whole list is stored,
\* with the time of the call.
C23_TechnicianCacheTtl ==
    [][(pager' # pager /\ pager'.loop = "technicians")
         => /\ (pager'.ended = "cached")
                  <=> (~Running /\ _technicians_cache.filled
                         /\ time - _technicians_cache.last_fetch < 30 * 60)
            /\ pager'.ended = "cached"
                  => /\ pager'.requests = 0
                     /\ pager'.all = _technicians_cache.data
            /\ pager'.ended # "cached" => (Running => pager'.requests = pager.requests + 1)
            /\ pager'.ended # "done" => UNCHANGED _technicians_cache
            /\ pager'.ended = "done"
                  => _technicians_cache' = [filled |-> TRUE, data |-> pager'.all,
                                            last_fetch |-> pager'.now]]_vars

\* a list of two pages served from the cache one second before it expires
C23_Witness ==
    /\ pager.loop = "technicians"
    /\ pager.ended = "cached"
    /\ Len(pager.all) = 2
    /\ time = 1799
    /\ _technicians_cache.last_fetch = 0

\* the pages of the loop but the last were full
AllButLastFull ==
    \A k \in 1..(Len(pager.all) - 1) : pager.all[k] = PageSize(pager.loop)

\* the last page is not full, or the API said with it that there are no more
LastPageEnds ==
    \/ pager.last.len # PageSize(pager.loop)
    \/ IF pager.loop = "technicians" THEN pager.last.hasMore # PyBool(TRUE)
       ELSE pager.last.hasMore = PyBool(FALSE)

\* C24: a page loop makes at most 20 requests whatever the API answers, and
\* makes no request after a page that is not full or that reports no more
\* data.
C24_BoundedPagination ==
    pager.loop \in {"technicians", "jobs"} /\ pager.ended # "cached"
    => /\ pager.requests <= 20
       /\ AllButLastFull
       /\ (Running /\ pager.requests > 0) => ~LastPageEnds

\* a loop stopped by the limit: 20 full pages, the last one announcing more
C24_Witness ==
    /\ pager.loop = "jobs"
    /\ pager.ended = "done"
    /\ pager.requests = 20
    /\ ~LastPageEnds

\* the id and the values of a device that a note holds, as text
SameDevice(a, b) ==
    /\ a.id = b.id
    /\ \A i \in DOMAIN NoteRows :
          Shown(a, NoteRows[i][2], <<>>) = Shown(b, NoteRows[i][2], <<>>)

\* what get_devices answers for the job once the process has been restarted
AfterRestart(job_id) == Listing(<<>>, job_id, "ok").loaded

C25_UniqueDeviceIds ==
    \A i, j \in DOMAIN backflow.devices :
       backflow.devices[i].id = backflow.devices[j].id => i = j

\* C26: the test records hold at most one record for a device id
C26_OneTestPerDevice ==
    \A i, j \in DOMAIN backflow.tests :
       backflow.tests[i].deviceId = backflow.tests[j].deviceId => i = j

\* C27: the id of every test record stored is still the id of a stored
\* record after a save_test
C27_TestIdsKept ==
    [][resp'.handler = "save_test" /\ backflow'.test_counter # backflow.test_counter
       => \A i \in DOMAIN backflow.tests :
          \E j \in DOMAIN backflow'.tests :
             backflow'.tests[j].id = backflow.tests[i].id]_vars

\* C28: every photo kept was uploaded and has the attachment id of its
\* upload, and after a delete_photo that answers success the photo of the
\* request is no longer kept
C28_PhotoRegistry ==
    /\ \A i \in DOMAIN backflow.photos :
          /\ backflow.photos[i].uploadedToServiceTitan
          /\ Truthy(backflow.photos[i].serviceTitanAttachmentId)
    /\ (resp.handler = "delete_photo" /\ resp.status = 200)
       => ~HasId(backflow.photos, resp.request.photo_id)

\* C29: every customer _get_customers_data returns was written by a fetch
\* made less than 60 minutes before the call
C29_CustomersFresh ==
    resp.handler = "_get_customers_data"
    => \A cid \in DOMAIN resp.customers_map :
          resp.now - resp.customers_map[cid].fetched < customers_expiry_minutes * 60

\* C30: a complete_draft that answers an error has left the file out of the
\* completed folder, and a file in the completed folder has been uploaded
\* to ServiceTitan
C30_FailedCompletionKeepsDraft ==
    /\ (resp.handler = "complete_draft" /\ resp.status # 200)
       => drive[resp.file].folder # "completed"
    /\ \A f \in FileIds :
          drive[f].folder = "completed"
          => \E i \in DOMAIN servicetitan.attachments :
                servicetitan.attachments[i].file = f

====
